---- MODULE Spec2Model ----
(***************************************************************************)
(* A model of the Redis-like server of this repository: the typed keyspace *)
(* (redis_server/storage.py), the command handlers                         *)
(* (redis_server/commands/*.py), the dispatcher                            *)
(* (redis_server/command_handler.py) and the persistence layer             *)
(* (redis_server/persistence/*.py).                                        *)
(*                                                                         *)
(* Time is counted in clock ticks, TicksPerSec ticks to the second, so     *)
(* that int() truncation of a remaining time is visible.  A handler runs   *)
(* to completion in one step (the server is single-threaded) but reads     *)
(* time.time() several times; the clock may advance between two reads.     *)
(***************************************************************************)
EXTENDS Integers, Sequences, FiniteSets, TLC

\* ------------------------------------------------------------------ bounds
MaxTime == 2            \* the clock runs from tick 0 to tick MaxTime
TicksPerSec == 2        \* clock resolution: ticks per second
MaxHandlerTicks == 1    \* ticks the clock may advance while one handler runs
MaxListLen == 2         \* pushes are not issued on a list already this long
MaxDrift == 3           \* commands are not issued once the memory counter is this far off
MaxChanges == 1         \* nor once the manager counts this many changes since a save
MaxSnapshots == 1       \* SAVE is not issued once the snapshot was written this often

\* ------------------------------------------------------- values and inputs
None == <<>>                       \* Python None, for an optional value
Some(x) == <<x>>

KeyA == "a"
KeyB == "bb"
Keys == {KeyA, KeyB}
Elems == {"x", "yy"}               \* list elements, set members, hash fields/values

Kinds == {"string", "list", "set", "hash"}

\* Python values, tagged by their Python type.  A str is kept as the sequence
\* of the tokens that " ".join() put together.
PyStr(tokens) == [str |-> tokens]
PyDeque(items) == [deque |-> items]
PyDict(map) == [dict |-> map]
PySet(members) == [set |-> members]
PyNone == [none |-> TRUE]
IsStr(v) == DOMAIN v = {"str"}
IsDeque(v) == DOMAIN v = {"deque"}
IsDict(v) == DOMAIN v = {"dict"}
IsSet(v) == DOMAIN v = {"set"}
IsNone(v) == DOMAIN v = {"none"}

RECURSIVE SumLen(_)
SumLen(seq) == IF seq = <<>> THEN 0 ELSE Len(Head(seq)) + SumLen(Tail(seq))

RECURSIVE SumLenSet(_)
SumLenSet(S) == IF S = {} THEN 0
                ELSE LET m == CHOOSE m \in S : TRUE IN Len(m) + SumLenSet(S \ {m})

\* len(" ".join(tokens).encode('utf-8'))
JoinedLen(tokens) == IF tokens = <<>> THEN 0 ELSE SumLen(tokens) + Len(tokens) - 1

\* ------------------------------------------------------------- DataStore
\* storage.py: self._data is a dict (insertion-ordered), kept here as the
\* function `data` and the sequence `order` of its keys in insertion order.
VARIABLES storage, now, persistence_manager, files
\* The append-only writer, the background snapshot thread and the append-only
\* rewrite in progress: each None or the object's fields.
VARIABLES aof_writer, bgsave, rewrite
\* The pub/sub manager's two maps, the server's client table (each connected
\* socket with its read buffer), the sockets as their peers see them, the
\* number of PUBLISH commands issued, the event loop's running flag and the
\* listening socket; and the thread-per-connection server main.py starts.
VARIABLES pubsub_manager, clients, sockets, published, running, server_socket
VARIABLES simple_server
\* The callers of RDBHandler.create_snapshot, where each of them is in it,
\* and who holds the handler's lock.
VARIABLES savers

Overhead == 64

DataStoreInit ==
    [data |-> <<>>, order |-> <<>>, memory_usage |-> 0,
     type_stats |-> [k \in Kinds |-> 0]]

Put(d, key, e) == [x \in DOMAIN d \cup {key} |-> IF x = key THEN e ELSE d[x]]
Drop(d, key) == [x \in DOMAIN d \ {key} |-> d[x]]
Without(seq, key) == SelectSeq(seq, LAMBDA x : x # key)

get_data_type(value) ==
    IF IsStr(value) THEN "string"
    ELSE IF IsDeque(value) THEN "list"
    ELSE IF IsSet(value) THEN "set"
    ELSE IF IsDict(value) THEN "hash"
    ELSE "string"

RECURSIVE SumLenDict(_)
SumLenDict(m) ==
    IF DOMAIN m = {} THEN 0
    ELSE LET k == CHOOSE k \in DOMAIN m : TRUE
         IN Len(k) + Len(m[k]) + SumLenDict(Drop(m, k))

calculate_memory_usage(key, value) ==
    LET key_size == Len(key)
        value_size ==
            IF IsDeque(value) THEN SumLen(value.deque)
            ELSE IF IsSet(value) THEN SumLenSet(value.set)
            ELSE IF IsDict(value) THEN SumLenDict(value.dict)
            ELSE JoinedLen(value.str)
    IN key_size + value_size + Overhead

\* A removal that forgets the kind counter.
RemoveEntry_KeepsKindCounter(s, key) ==
    [s EXCEPT !.memory_usage = @ - calculate_memory_usage(key, s.data[key].value),
              !.data = Drop(@, key),
              !.order = Without(@, key)]

\* The removal every expiry path and delete() performs: counters, then del.
RemoveEntry(s, key) ==
    [s EXCEPT !.memory_usage = @ - calculate_memory_usage(key, s.data[key].value),
              !.type_stats[s.data[key].type] = @ - 1,
              !.data = Drop(@, key),
              !.order = Without(@, key)]

\* Results of a DataStore method: the store after it, what it returned, and
\* the exception it raised ("" when it returned).
Ret(s, r) == [s |-> s, r |-> r, exc |-> ""]
Raise(s, e) == [s |-> s, r |-> PyNone, exc |-> e]

WRONGTYPE == "WRONGTYPE Operation against a key holding the wrong kind of value"
DictChanged == "dictionary changed size during iteration"

is_key_valid(s, key, t) ==
    IF key \notin DOMAIN s.data THEN Ret(s, FALSE)
    ELSE LET expiry_time == s.data[key].expiry_time
         IN IF expiry_time # None /\ expiry_time[1] <= t
            THEN Ret(RemoveEntry(s, key), FALSE)
            ELSE Ret(s, TRUE)

ds_set(s, key, value, expiry_time) ==
    LET had == key \in DOMAIN s.data
        s1 == IF had
              THEN [s EXCEPT
                      !.memory_usage = @ - calculate_memory_usage(key, s.data[key].value),
                      !.type_stats[s.data[key].type] = @ - 1]
              ELSE s
        data_type == get_data_type(value)
    IN [s1 EXCEPT
          !.data = Put(@, key, [value |-> value, type |-> data_type,
                                expiry_time |-> expiry_time]),
          !.order = IF had THEN @ ELSE Append(@, key),
          !.memory_usage = @ + calculate_memory_usage(key, value),
          !.type_stats[data_type] = @ + 1]

ds_get(s, key, t) ==
    LET v == is_key_valid(s, key, t)
    IN IF ~v.r THEN Ret(v.s, PyNone) ELSE Ret(v.s, v.s.data[key].value)

RECURSIVE ds_delete(_, _)
ds_delete(s, keys) ==
    IF keys = <<>> THEN Ret(s, 0)
    ELSE LET key == Head(keys)
             hit == key \in DOMAIN s.data
             rest == ds_delete(IF hit THEN RemoveEntry(s, key) ELSE s, Tail(keys))
         IN Ret(rest.s, rest.r + (IF hit THEN 1 ELSE 0))

\* One clock read per key, in argument order.
RECURSIVE ds_exists(_, _, _)
ds_exists(s, keys, clk) ==
    IF keys = <<>> THEN Ret(s, 0)
    ELSE LET v == is_key_valid(s, Head(keys), Head(clk))
             rest == ds_exists(v.s, Tail(keys), Tail(clk))
         IN Ret(rest.s, rest.r + (IF v.r THEN 1 ELSE 0))

ds_flush(s) == DataStoreInit

ds_expire(s, key, seconds, t1, t2) ==
    LET v == is_key_valid(s, key, t1)
    IN IF ~v.r THEN Ret(v.s, FALSE)
       ELSE Ret([v.s EXCEPT !.data[key].expiry_time = Some(t2 + seconds * TicksPerSec)],
                TRUE)

ds_expire_at(s, key, timestamp, t) ==
    LET v == is_key_valid(s, key, t)
    IN IF ~v.r THEN Ret(v.s, FALSE)
       ELSE Ret([v.s EXCEPT !.data[key].expiry_time = Some(timestamp)], TRUE)

\* int(remaining): whole seconds, truncated (remaining > 0 here).
ds_ttl(s, key, t) ==
    IF key \notin DOMAIN s.data THEN Ret(s, -2)
    ELSE LET expiry_time == s.data[key].expiry_time
         IN IF expiry_time = None THEN Ret(s, -1)
            ELSE LET remaining == expiry_time[1] - t
                 IN IF remaining <= 0 THEN Ret(RemoveEntry(s, key), -2)
                    ELSE Ret(s, remaining \div TicksPerSec)

\* int(remaining * 1000): whole milliseconds.
ds_pttl(s, key, t) ==
    IF key \notin DOMAIN s.data THEN Ret(s, -2)
    ELSE LET expiry_time == s.data[key].expiry_time
         IN IF expiry_time = None THEN Ret(s, -1)
            ELSE LET remaining == expiry_time[1] - t
                 IN IF remaining <= 0 THEN Ret(RemoveEntry(s, key), -2)
                    ELSE Ret(s, (remaining * 1000) \div TicksPerSec)

ds_persist(s, key, t) ==
    LET v == is_key_valid(s, key, t)
    IN IF ~v.r THEN Ret(v.s, FALSE)
       ELSE Ret([v.s EXCEPT !.data[key].expiry_time = None], TRUE)

ds_get_type(s, key, t) ==
    LET v == is_key_valid(s, key, t)
    IN IF ~v.r THEN Ret(v.s, "none") ELSE Ret(v.s, v.s.data[key].type)

\* random.sample(keys, min(20, len)): `sample_keys` is any such sample.
SampleSize == 20
RECURSIVE Combinations(_, _)
Combinations(population, k) ==
    IF k = 0 THEN {{}}
    ELSE IF Cardinality(population) = k THEN {population}
    ELSE LET x == CHOOSE x \in population : TRUE
         IN Combinations(population \ {x}, k)
            \cup {c \cup {x} : c \in Combinations(population \ {x}, k - 1)}
Samples(s) ==
    LET len == Cardinality(DOMAIN s.data)
        sample_size == IF SampleSize <= len THEN SampleSize ELSE len
    IN Combinations(DOMAIN s.data, sample_size)
\* A sweep that spares the keys whose expiry is this very instant.
cleanup_expired_keys_SparesDueNow(s, sample_keys, current_time) ==
    IF s.order = <<>> THEN Ret(s, 0)
    ELSE LET expired_keys ==
                 SelectSeq(s.order, LAMBDA key :
                     /\ key \in sample_keys
                     /\ s.data[key].expiry_time # None
                     /\ s.data[key].expiry_time[1] < current_time)
         IN Ret(ds_delete(s, expired_keys).s, Len(expired_keys))

cleanup_expired_keys(s, sample_keys, current_time) ==
    IF s.order = <<>> THEN Ret(s, 0)
    ELSE LET expired_keys ==
                 SelectSeq(s.order, LAMBDA key :
                     /\ key \in sample_keys
                     /\ s.data[key].expiry_time # None
                     /\ s.data[key].expiry_time[1] <= current_time)
         IN Ret(ds_delete(s, expired_keys).s, Len(expired_keys))

get_or_create_list(s, key, t) ==
    LET v == is_key_valid(s, key, t)
    IN IF ~v.r THEN Ret(ds_set(v.s, key, PyDeque(<<>>), None), PyDeque(<<>>))
       ELSE IF v.s.data[key].type # "list" THEN Raise(v.s, WRONGTYPE)
       ELSE Ret(v.s, v.s.data[key].value)

get_or_create_hash(s, key, t) ==
    LET v == is_key_valid(s, key, t)
    IN IF ~v.r THEN Ret(ds_set(v.s, key, PyDict(<<>>), None), PyDict(<<>>))
       ELSE IF v.s.data[key].type # "hash" THEN Raise(v.s, WRONGTYPE)
       ELSE Ret(v.s, v.s.data[key].value)

\* An accessor that replaces a value of another kind instead of raising.
get_or_create_set_Overwrites(s, key, t) ==
    LET v == is_key_valid(s, key, t)
    IN IF ~v.r \/ v.s.data[key].type # "set"
       THEN Ret(ds_set(v.s, key, PySet({}), None), PySet({}))
       ELSE Ret(v.s, v.s.data[key].value)

get_or_create_set(s, key, t) ==
    LET v == is_key_valid(s, key, t)
    IN IF ~v.r THEN Ret(ds_set(v.s, key, PySet({}), None), PySet({}))
       ELSE IF v.s.data[key].type # "set" THEN Raise(v.s, WRONGTYPE)
       ELSE Ret(v.s, v.s.data[key].value)

\* A mutation that writes the entry anew, without its expiry.
Mutate_ClearsExpiry(s, key, value) ==
    [s EXCEPT !.data[key].value = value, !.data[key].expiry_time = None]

\* The aggregate a handler got from get_or_create_* is the stored object: a
\* mutation in place changes the entry's value and nothing else.
Mutate(s, key, value) == [s EXCEPT !.data[key].value = value]

\* ------------------------------------------------------- fnmatch (KEYS)
\* Key names and glob patterns character by character: a pattern is a
\* sequence of atoms, as fnmatch.translate() reads it.
Chars(name) == CASE name = KeyA -> <<"a">>
                 [] name = KeyB -> <<"b", "b">>
Star == [k |-> "star", cs |-> {}]
AnyChar == [k |-> "any", cs |-> {}]
Class(cs) == [k |-> "class", cs |-> cs]
Lit(c) == [k |-> "class", cs |-> {c}]
Patterns == {"*", "?", "b*", "[ab]"}
Atoms(pattern) == CASE pattern = "*" -> <<Star>>
                    [] pattern = "?" -> <<AnyChar>>
                    [] pattern = "b*" -> <<Lit("b"), Star>>
                    [] pattern = "[ab]" -> <<Class({"a", "b"})>>

RECURSIVE Match(_, _)
Match(name, pat) ==
    IF pat = <<>> THEN name = <<>>
    ELSE IF Head(pat).k = "star"
         THEN Match(name, Tail(pat)) \/ (name # <<>> /\ Match(Tail(name), pat))
    ELSE IF name = <<>> THEN FALSE
    ELSE IF Head(pat).k = "any" THEN Match(Tail(name), Tail(pat))
    ELSE Head(name) \in Head(pat).cs /\ Match(Tail(name), Tail(pat))

fnmatch(name, pattern) == Match(Chars(name), Atoms(pattern))

\* The comprehension of keys(): it iterates the dict itself, and
\* _is_key_valid deletes an expired key from it, after which the iterator's
\* next step raises RuntimeError.  `todo` is what is left to iterate.
RECURSIVE ValidKeys(_, _, _)
ValidKeys(s, todo, clk) ==
    IF todo = <<>> THEN Ret(s, s.order)
    ELSE LET v == is_key_valid(s, Head(todo), Head(clk))
         IN IF ~v.r THEN Raise(v.s, DictChanged)
            ELSE ValidKeys(s, Tail(todo), Tail(clk))

ds_keys(s, pattern, clk) ==
    LET v == ValidKeys(s, s.order, clk)
    IN IF v.exc # "" \/ pattern = "*" THEN v
       ELSE Ret(v.s, SelectSeq(v.r, LAMBDA key : fnmatch(key, pattern)))

\* ------------------------------------------------------ Response encoder
\* response.py: the reply a handler builds, by its constructor.
ok == [t |-> "simple", text |-> "OK"]
simple_string(text) == [t |-> "simple", text |-> text]
error(msg) == [t |-> "error", msg |-> msg]
integer(n) == [t |-> "integer", n |-> n]
null_bulk_string == [t |-> "null"]
bulk_string(value) == IF IsNone(value) THEN null_bulk_string
                      ELSE [t |-> "bulk", value |-> value]
array(items) == [t |-> "array", items |-> items]

\* ------------------------------------------------------- command handlers
\* A handler's outcome: the store after it and its reply, or the exception
\* that escaped it.  `clk` holds the values of its successive clock reads.
H(s, r) == [s |-> s, reply |-> r, exc |-> ""]
Escapes(s, e) == [s |-> s, reply |-> error(e), exc |-> e]

IntTokens == {"-1", "0", "1"}
int(tok) == CASE tok = "-1" -> -1 [] tok = "0" -> 0 [] tok = "1" -> 1
upper(tok) == IF tok = "ex" THEN "EX" ELSE tok
Str(tok) == PyStr(<<tok>>)

RECURSIVE Reverse(_)
Reverse(seq) == IF seq = <<>> THEN <<>> ELSE Append(Reverse(Tail(seq)), Head(seq))

set(s, args, clk) ==
    LET n == Len(args)
    IN IF n < 2 THEN H(s, error("wrong number of arguments for 'set' command"))
       ELSE IF n >= 4 /\ upper(args[n - 1]) = "EX"
            THEN IF args[n] \notin IntTokens
                 THEN H(s, error("Invalid expire time in set"))
                 ELSE H(ds_set(s, args[1], PyStr(SubSeq(args, 2, n - 2)),
                               Some(clk[1] + int(args[n]) * TicksPerSec)), ok)
       ELSE H(ds_set(s, args[1], PyStr(SubSeq(args, 2, n)), None), ok)

get(s, args, clk) ==
    IF Len(args) # 1 THEN H(s, error("wrong number of arguments for 'get' command"))
    ELSE LET v == ds_get(s, args[1], clk[1]) IN H(v.s, bulk_string(v.r))

delete(s, args, clk) ==
    IF args = <<>> THEN H(s, error("wrong number of arguments for 'del' command"))
    ELSE LET v == ds_delete(s, args) IN H(v.s, integer(v.r))

exists(s, args, clk) ==
    IF args = <<>> THEN H(s, error("wrong number of arguments for 'exists' command"))
    ELSE LET v == ds_exists(s, args, clk) IN H(v.s, integer(v.r))

keys(s, args, clk) ==
    LET pattern == IF args # <<>> THEN args[1] ELSE "*"
        v == ds_keys(s, pattern, clk)
    IN IF v.exc # "" THEN Escapes(v.s, v.exc)
       ELSE H(v.s, array([i \in 1..Len(v.r) |-> bulk_string(Str(v.r[i]))]))

flushall(s, args, clk) == H(ds_flush(s), ok)

expire_DeletesWhenNotPositive(s, args, clk) ==
    IF Len(args) # 2 THEN H(s, error("Wrong number of arguments for 'expire' command"))
    ELSE IF args[2] \notin IntTokens THEN H(s, error("invalid expire time"))
    ELSE IF int(args[2]) <= 0 THEN H(ds_delete(s, <<args[1]>>).s, integer(0))
    ELSE LET v == ds_expire(s, args[1], int(args[2]), clk[1], clk[2])
         IN H(v.s, integer(IF v.r THEN 1 ELSE 0))
expire(s, args, clk) ==
    IF Len(args) # 2 THEN H(s, error("Wrong number of arguments for 'expire' command"))
    ELSE IF args[2] \notin IntTokens THEN H(s, error("invalid expire time"))
    ELSE IF int(args[2]) <= 0 THEN H(s, integer(0))
    ELSE LET v == ds_expire(s, args[1], int(args[2]), clk[1], clk[2])
         IN H(v.s, integer(IF v.r THEN 1 ELSE 0))

ttl(s, args, clk) ==
    IF Len(args) # 1 THEN H(s, error("wrong number of arguments for 'ttl' command"))
    ELSE LET v == ds_ttl(s, args[1], clk[1])
         IN IF v.r = -1 THEN H(v.s, simple_string("No expiration set for key"))
            ELSE IF v.r = -2 THEN H(v.s, simple_string("Key has expired"))
            ELSE H(v.s, integer(v.r))

\* pttl() compares the integer it got with the strings "-1" and "-2".
pttl(s, args, clk) ==
    IF Len(args) # 1 THEN H(s, error("wrong number of arguments for 'pttl' command"))
    ELSE LET v == ds_pttl(s, args[1], clk[1]) IN H(v.s, integer(v.r))

persist(s, args, clk) ==
    IF Len(args) # 1 THEN H(s, error("wrong number of arguments for 'persist' command"))
    ELSE LET v == ds_persist(s, args[1], clk[1])
         IN H(v.s, integer(IF v.r THEN 1 ELSE 0))

get_type(s, args, clk) ==
    IF Len(args) # 1 THEN H(s, error("wrong number of arguments for 'type' command"))
    ELSE LET v == ds_get_type(s, args[1], clk[1]) IN H(v.s, simple_string(v.r))

expireat(s, args, clk) ==
    IF Len(args) # 2 THEN H(s, error("wrong number of arguments for 'expireat' command"))
    ELSE IF args[2] \notin IntTokens THEN H(s, error("invalid timestamp"))
    ELSE IF int(args[2]) * TicksPerSec <= clk[1] THEN H(s, integer(0))
    ELSE LET v == ds_expire_at(s, args[1], int(args[2]) * TicksPerSec, clk[2])
         IN H(v.s, integer(IF v.r THEN 1 ELSE 0))

\* lists ------------------------------------------------------------------
lpush(s, args, clk) ==
    IF Len(args) < 2 THEN H(s, error("wrong number of arguments for 'lpush' command"))
    ELSE LET key == args[1]
             g == get_or_create_list(s, key, clk[1])
             lst == Reverse(Tail(args)) \o g.r.deque
         IN IF g.exc # "" THEN H(g.s, error(g.exc))
            ELSE H(Mutate(g.s, key, PyDeque(lst)), integer(Len(lst)))

rpush(s, args, clk) ==
    IF Len(args) < 2 THEN H(s, error("wrong number of arguments for 'rpush' command"))
    ELSE LET key == args[1]
             g == get_or_create_list(s, key, clk[1])
             lst == g.r.deque \o Tail(args)
         IN IF g.exc # "" THEN H(g.s, error(g.exc))
            ELSE H(Mutate(g.s, key, PyDeque(lst)), integer(Len(lst)))

lpop(s, args, clk) ==
    IF Len(args) # 1 THEN H(s, error("wrong number of arguments for 'lpop' command"))
    ELSE LET key == args[1]
             v == is_key_valid(s, key, clk[1])
             g == get_or_create_list(v.s, key, clk[2])
             lst == g.r.deque
             s1 == Mutate(g.s, key, PyDeque(Tail(lst)))
         IN IF ~v.r THEN H(v.s, null_bulk_string)
            ELSE IF g.exc # "" THEN H(g.s, error(g.exc))
            ELSE IF lst = <<>> THEN H(g.s, null_bulk_string)
            ELSE H(IF Tail(lst) = <<>> THEN ds_delete(s1, <<key>>).s ELSE s1,
                   bulk_string(Str(Head(lst))))

rpop(s, args, clk) ==
    IF Len(args) # 1 THEN H(s, error("wrong number of arguments for 'rpop' command"))
    ELSE LET key == args[1]
             v == is_key_valid(s, key, clk[1])
             g == get_or_create_list(v.s, key, clk[2])
             lst == g.r.deque
             front == SubSeq(lst, 1, Len(lst) - 1)
             s1 == Mutate(g.s, key, PyDeque(front))
         IN IF ~v.r THEN H(v.s, null_bulk_string)
            ELSE IF g.exc # "" THEN H(g.s, error(g.exc))
            ELSE IF lst = <<>> THEN H(g.s, null_bulk_string)
            ELSE H(IF front = <<>> THEN ds_delete(s1, <<key>>).s ELSE s1,
                   bulk_string(Str(lst[Len(lst)])))

lrange(s, args, clk) ==
    IF Len(args) # 3 THEN H(s, error("wrong number of arguments for 'lrange' command"))
    ELSE IF args[2] \notin IntTokens \/ args[3] \notin IntTokens
         THEN H(s, error("value is not an integer or out of range"))
    ELSE LET key == args[1]
             v == is_key_valid(s, key, clk[1])
             g == get_or_create_list(v.s, key, clk[2])
             lst == g.r.deque
             list_len == Len(lst)
             Max(a, b) == IF a >= b THEN a ELSE b
             Min(a, b) == IF a <= b THEN a ELSE b
             start0 == int(args[2])
             stop0 == int(args[3])
             start == Max(0, IF start0 < 0 THEN Max(0, list_len + start0) ELSE start0)
             stop == Min(list_len - 1, IF stop0 < 0 THEN list_len + stop0 ELSE stop0)
         IN IF ~v.r THEN H(v.s, array(<<>>))
            ELSE IF g.exc # "" THEN H(g.s, error(g.exc))
            ELSE IF start > stop \/ start >= list_len THEN H(g.s, array(<<>>))
            ELSE H(g.s, array([i \in 1..(stop - start + 1) |->
                                  bulk_string(Str(lst[start + i]))]))

llen(s, args, clk) ==
    IF Len(args) # 1 THEN H(s, error("wrong number of arguments for 'llen' command"))
    ELSE LET key == args[1]
             v == is_key_valid(s, key, clk[1])
             g == get_or_create_list(v.s, key, clk[2])
         IN IF ~v.r THEN H(v.s, integer(0))
            ELSE IF g.exc # "" THEN H(g.s, error(g.exc))
            ELSE H(g.s, integer(Len(g.r.deque)))

lindex(s, args, clk) ==
    IF Len(args) # 2 THEN H(s, error("wrong number of arguments for 'lindex' command"))
    ELSE IF args[2] \notin IntTokens
         THEN H(s, error("value is not an integer or out of range"))
    ELSE LET key == args[1]
             v == is_key_valid(s, key, clk[1])
             g == get_or_create_list(v.s, key, clk[2])
             lst == g.r.deque
             index == IF int(args[2]) < 0 THEN Len(lst) + int(args[2]) ELSE int(args[2])
         IN IF ~v.r THEN H(v.s, null_bulk_string)
            ELSE IF g.exc # "" THEN H(g.s, error(g.exc))
            ELSE IF index < 0 \/ index >= Len(lst) THEN H(g.s, null_bulk_string)
            ELSE H(g.s, bulk_string(Str(lst[index + 1])))

lset(s, args, clk) ==
    IF Len(args) # 3 THEN H(s, error("wrong number of arguments for 'lset' command"))
    ELSE IF args[2] \notin IntTokens
         THEN H(s, error("value is not an integer or out of range"))
    ELSE LET key == args[1]
             v == is_key_valid(s, key, clk[1])
             g == get_or_create_list(v.s, key, clk[2])
             lst == g.r.deque
             index == IF int(args[2]) < 0 THEN Len(lst) + int(args[2]) ELSE int(args[2])
         IN IF ~v.r THEN H(v.s, error("no such key"))
            ELSE IF g.exc # "" THEN H(g.s, error(g.exc))
            ELSE IF index < 0 \/ index >= Len(lst) THEN H(g.s, error("index out of range"))
            ELSE H(Mutate(g.s, key, PyDeque([lst EXCEPT ![index + 1] = args[3]])), ok)

\* hashes -----------------------------------------------------------------
\* The loop over field_value_pairs: the dict after it and the fields it added.
RECURSIVE SetPairs(_, _)
SetPairs(map, pairs) ==
    IF pairs = <<>> THEN [map |-> map, new_fields |-> 0]
    ELSE LET rest == SetPairs(Put(map, pairs[1], pairs[2]), SubSeq(pairs, 3, Len(pairs)))
         IN [map |-> rest.map,
             new_fields |-> rest.new_fields + (IF pairs[1] \in DOMAIN map THEN 0 ELSE 1)]

\* An array built by iterating a Python set or dict: its elements, unordered.
array_of(members) == [t |-> "array", members |-> members]

hset(s, args, clk) ==
    IF Len(args) < 3 \/ Len(args) % 2 = 0
    THEN H(s, error("wrong number of arguments for 'hset' command"))
    ELSE LET key == args[1]
             g == get_or_create_hash(s, key, clk[1])
             done == SetPairs(g.r.dict, Tail(args))
         IN IF g.exc # "" THEN H(g.s, error(g.exc))
            ELSE H(Mutate(g.s, key, PyDict(done.map)), integer(done.new_fields))

hmset(s, args, clk) ==
    IF Len(args) < 3 \/ Len(args) % 2 = 0
    THEN H(s, error("wrong number of arguments for 'hmset' command"))
    ELSE LET key == args[1]
             g == get_or_create_hash(s, key, clk[1])
             done == SetPairs(g.r.dict, Tail(args))
         IN IF g.exc # "" THEN H(g.s, error(g.exc))
            ELSE H(Mutate(g.s, key, PyDict(done.map)), ok)

hget(s, args, clk) ==
    IF Len(args) # 2 THEN H(s, error("wrong number of arguments for 'hget' command"))
    ELSE LET key == args[1]
             v == is_key_valid(s, key, clk[1])
             g == get_or_create_hash(v.s, key, clk[2])
         IN IF ~v.r THEN H(v.s, null_bulk_string)
            ELSE IF g.exc # "" THEN H(g.s, error(g.exc))
            ELSE IF args[2] \in DOMAIN g.r.dict
                 THEN H(g.s, bulk_string(Str(g.r.dict[args[2]])))
            ELSE H(g.s, null_bulk_string)

hmget(s, args, clk) ==
    IF Len(args) < 2 THEN H(s, error("wrong number of arguments for 'hmget' command"))
    ELSE LET key == args[1]
             fields == Tail(args)
             v == is_key_valid(s, key, clk[1])
             g == get_or_create_hash(v.s, key, clk[2])
         IN IF ~v.r THEN H(v.s, array([i \in 1..Len(fields) |-> null_bulk_string]))
            ELSE IF g.exc # "" THEN H(g.s, error(g.exc))
            ELSE H(g.s, array([i \in 1..Len(fields) |->
                                  IF fields[i] \in DOMAIN g.r.dict
                                  THEN bulk_string(Str(g.r.dict[fields[i]]))
                                  ELSE null_bulk_string]))

hgetall(s, args, clk) ==
    IF Len(args) # 1 THEN H(s, error("wrong number of arguments for 'hgetall' command"))
    ELSE LET key == args[1]
             v == is_key_valid(s, key, clk[1])
             g == get_or_create_hash(v.s, key, clk[2])
         IN IF ~v.r THEN H(v.s, array(<<>>))
            ELSE IF g.exc # "" THEN H(g.s, error(g.exc))
            ELSE H(g.s, array_of({<<f, g.r.dict[f]>> : f \in DOMAIN g.r.dict}))

hdel(s, args, clk) ==
    IF Len(args) < 2 THEN H(s, error("wrong number of arguments for 'hdel' command"))
    ELSE LET key == args[1]
             fields == {args[i] : i \in 2..Len(args)}
             v == is_key_valid(s, key, clk[1])
             g == get_or_create_hash(v.s, key, clk[2])
             hash_obj == [f \in DOMAIN g.r.dict \ fields |-> g.r.dict[f]]
             deleted_count == Cardinality(DOMAIN g.r.dict \cap fields)
             s1 == Mutate(g.s, key, PyDict(hash_obj))
         IN IF ~v.r THEN H(v.s, integer(0))
            ELSE IF g.exc # "" THEN H(g.s, error(g.exc))
            ELSE H(IF DOMAIN hash_obj = {} THEN ds_delete(s1, <<key>>).s ELSE s1,
                   integer(deleted_count))

hexists(s, args, clk) ==
    IF Len(args) # 2 THEN H(s, error("wrong number of arguments for 'hexists' command"))
    ELSE LET key == args[1]
             v == is_key_valid(s, key, clk[1])
             g == get_or_create_hash(v.s, key, clk[2])
         IN IF ~v.r THEN H(v.s, integer(0))
            ELSE IF g.exc # "" THEN H(g.s, error(g.exc))
            ELSE H(g.s, integer(IF args[2] \in DOMAIN g.r.dict THEN 1 ELSE 0))

hlen(s, args, clk) ==
    IF Len(args) # 1 THEN H(s, error("wrong number of arguments for 'hlen' command"))
    ELSE LET key == args[1]
             v == is_key_valid(s, key, clk[1])
             g == get_or_create_hash(v.s, key, clk[2])
         IN IF ~v.r THEN H(v.s, integer(0))
            ELSE IF g.exc # "" THEN H(g.s, error(g.exc))
            ELSE H(g.s, integer(Cardinality(DOMAIN g.r.dict)))

\* sets -------------------------------------------------------------------
sadd(s, args, clk) ==
    IF Len(args) < 2 THEN H(s, error("wrong number of arguments for 'sadd' command"))
    ELSE LET key == args[1]
             members == {args[i] : i \in 2..Len(args)}
             g == get_or_create_set(s, key, clk[1])
         IN IF g.exc # "" THEN H(g.s, error(g.exc))
            ELSE H(Mutate(g.s, key, PySet(g.r.set \cup members)),
                   integer(Cardinality(members \ g.r.set)))

srem(s, args, clk) ==
    IF Len(args) < 2 THEN H(s, error("wrong number of arguments for 'srem' command"))
    ELSE LET key == args[1]
             members == {args[i] : i \in 2..Len(args)}
             v == is_key_valid(s, key, clk[1])
             g == get_or_create_set(v.s, key, clk[2])
             set_obj == g.r.set \ members
             s1 == Mutate(g.s, key, PySet(set_obj))
         IN IF ~v.r THEN H(v.s, integer(0))
            ELSE IF g.exc # "" THEN H(g.s, error(g.exc))
            ELSE H(IF set_obj = {} THEN ds_delete(s1, <<key>>).s ELSE s1,
                   integer(Cardinality(g.r.set \cap members)))

smembers(s, args, clk) ==
    IF Len(args) # 1 THEN H(s, error("wrong number of arguments for 'smembers' command"))
    ELSE LET key == args[1]
             v == is_key_valid(s, key, clk[1])
             g == get_or_create_set(v.s, key, clk[2])
         IN IF ~v.r THEN H(v.s, array(<<>>))
            ELSE IF g.exc # "" THEN H(g.s, error(g.exc))
            ELSE H(g.s, array_of(g.r.set))

sismember(s, args, clk) ==
    IF Len(args) # 2 THEN H(s, error("wrong number of arguments for 'sismember' command"))
    ELSE LET key == args[1]
             v == is_key_valid(s, key, clk[1])
             g == get_or_create_set(v.s, key, clk[2])
         IN IF ~v.r THEN H(v.s, integer(0))
            ELSE IF g.exc # "" THEN H(g.s, error(g.exc))
            ELSE H(g.s, integer(IF args[2] \in g.r.set THEN 1 ELSE 0))

scard(s, args, clk) ==
    IF Len(args) # 1 THEN H(s, error("wrong number of arguments for 'scard' command"))
    ELSE LET key == args[1]
             v == is_key_valid(s, key, clk[1])
             g == get_or_create_set(v.s, key, clk[2])
         IN IF ~v.r THEN H(v.s, integer(0))
            ELSE IF g.exc # "" THEN H(g.s, error(g.exc))
            ELSE H(g.s, integer(Cardinality(g.r.set)))

\* The loops of sinter/sinterstore, sunion and sdiff over their key arguments,
\* two clock reads a key.  `missing`: the loop met a key that is not valid.
SetRet(s, r, missing, exc) == [s |-> s, r |-> r, missing |-> missing, exc |-> exc]

RECURSIVE InterLoop(_, _, _, _)
InterLoop(s, ks, result_set, clk) ==
    IF ks = <<>> THEN SetRet(s, result_set, FALSE, "")
    ELSE LET v == is_key_valid(s, Head(ks), clk[1])
             g == get_or_create_set(v.s, Head(ks), clk[2])
         IN IF ~v.r THEN SetRet(v.s, {}, TRUE, "")
            ELSE IF g.exc # "" THEN SetRet(g.s, {}, FALSE, g.exc)
            ELSE InterLoop(g.s, Tail(ks), result_set \cap g.r.set,
                           SubSeq(clk, 3, Len(clk)))

RECURSIVE UnionLoop(_, _, _, _)
UnionLoop(s, ks, result_set, clk) ==
    IF ks = <<>> THEN SetRet(s, result_set, FALSE, "")
    ELSE LET v == is_key_valid(s, Head(ks), clk[1])
             g == get_or_create_set(v.s, Head(ks), clk[2])
         IN IF ~v.r THEN UnionLoop(v.s, Tail(ks), result_set, SubSeq(clk, 3, Len(clk)))
            ELSE IF g.exc # "" THEN SetRet(g.s, {}, FALSE, g.exc)
            ELSE UnionLoop(g.s, Tail(ks), result_set \cup g.r.set,
                           SubSeq(clk, 3, Len(clk)))

RECURSIVE DiffLoop(_, _, _, _)
DiffLoop(s, ks, result_set, clk) ==
    IF ks = <<>> THEN SetRet(s, result_set, FALSE, "")
    ELSE LET v == is_key_valid(s, Head(ks), clk[1])
             g == get_or_create_set(v.s, Head(ks), clk[2])
         IN IF ~v.r THEN DiffLoop(v.s, Tail(ks), result_set, SubSeq(clk, 3, Len(clk)))
            ELSE IF g.exc # "" THEN SetRet(g.s, {}, FALSE, g.exc)
            ELSE DiffLoop(g.s, Tail(ks), result_set \ g.r.set,
                          SubSeq(clk, 3, Len(clk)))

sinter(s, args, clk) ==
    IF Len(args) < 1 THEN H(s, error("wrong number of arguments for 'sinter' command"))
    ELSE LET v == is_key_valid(s, args[1], clk[1])
             g == get_or_create_set(v.s, args[1], clk[2])
             l == InterLoop(g.s, Tail(args), g.r.set, SubSeq(clk, 3, Len(clk)))
         IN IF ~v.r THEN H(v.s, array(<<>>))
            ELSE IF g.exc # "" THEN H(g.s, error(g.exc))
            ELSE IF l.exc # "" THEN H(l.s, error(l.exc))
            ELSE IF l.missing THEN H(l.s, array(<<>>))
            ELSE H(l.s, array_of(l.r))

sunion(s, args, clk) ==
    IF Len(args) < 1 THEN H(s, error("wrong number of arguments for 'sunion' command"))
    ELSE LET l == UnionLoop(s, args, {}, clk)
         IN IF l.exc # "" THEN H(l.s, error(l.exc)) ELSE H(l.s, array_of(l.r))

sdiff(s, args, clk) ==
    IF Len(args) < 1 THEN H(s, error("wrong number of arguments for 'sdiff' command"))
    ELSE LET v == is_key_valid(s, args[1], clk[1])
             g == get_or_create_set(v.s, args[1], clk[2])
             l == DiffLoop(g.s, Tail(args), g.r.set, SubSeq(clk, 3, Len(clk)))
         IN IF ~v.r THEN H(v.s, array(<<>>))
            ELSE IF g.exc # "" THEN H(g.s, error(g.exc))
            ELSE IF l.exc # "" THEN H(l.s, error(l.exc))
            ELSE H(l.s, array_of(l.r))

\* A SINTERSTORE that leaves dest alone when the intersection is empty.
sinterstore_KeepsDestWhenEmpty(s, args, clk) ==
    IF Len(args) < 2
    THEN H(s, error("wrong number of arguments for 'sinterstore' command"))
    ELSE LET destination == args[1]
             ks == Tail(args)
             v == is_key_valid(s, ks[1], clk[1])
             g == get_or_create_set(v.s, ks[1], clk[2])
             l == InterLoop(g.s, Tail(ks), g.r.set, SubSeq(clk, 3, Len(clk)))
         IN IF ~v.r THEN H(ds_delete(v.s, <<destination>>).s, integer(0))
            ELSE IF g.exc # "" THEN H(g.s, error(g.exc))
            ELSE IF l.exc # "" THEN H(l.s, error(l.exc))
            ELSE IF l.missing THEN H(ds_delete(l.s, <<destination>>).s, integer(0))
            ELSE IF l.r # {}
                 THEN H(ds_set(l.s, destination, PySet(l.r), None),
                        integer(Cardinality(l.r)))
            ELSE H(l.s, integer(0))

sinterstore(s, args, clk) ==
    IF Len(args) < 2
    THEN H(s, error("wrong number of arguments for 'sinterstore' command"))
    ELSE LET destination == args[1]
             ks == Tail(args)
             v == is_key_valid(s, ks[1], clk[1])
             g == get_or_create_set(v.s, ks[1], clk[2])
             l == InterLoop(g.s, Tail(ks), g.r.set, SubSeq(clk, 3, Len(clk)))
         IN IF ~v.r THEN H(ds_delete(v.s, <<destination>>).s, integer(0))
            ELSE IF g.exc # "" THEN H(g.s, error(g.exc))
            ELSE IF l.exc # "" THEN H(l.s, error(l.exc))
            ELSE IF l.missing THEN H(ds_delete(l.s, <<destination>>).s, integer(0))
            ELSE IF l.r # {}
                 THEN H(ds_set(l.s, destination, PySet(l.r), None),
                        integer(Cardinality(l.r)))
            ELSE H(ds_delete(l.s, <<destination>>).s, integer(0))

\* ------------------------------------------------------------ dispatcher
\* base.py: the verbs the dispatcher passes on to the persistence manager.
WriteCommands == {"SET", "DEL", "EXPIRE", "EXPIREAT", "PERSIST", "FLUSHALL",
                  "LPUSH", "RPUSH", "LPOP", "RPOP", "LSET",
                  "HSET", "HMSET", "HDEL", "SADD", "SREM", "SINTERSTORE"}
is_write_command(command) == upper(command) \in WriteCommands

\* command_handler.py: self.commands, the registry.
Registry == {"SET", "GET", "DEL", "EXISTS", "KEYS", "FLUSHALL",
             "EXPIRE", "EXPIREAT", "TTL", "PTTL", "PERSIST", "TYPE",
             "LPUSH", "RPUSH", "LPOP", "RPOP", "LRANGE", "LLEN", "LINDEX", "LSET",
             "HSET", "HGET", "HMSET", "HMGET", "HGETALL", "HDEL", "HEXISTS", "HLEN",
             "SADD", "SREM", "SMEMBERS", "SISMEMBER", "SCARD",
             "SINTER", "SUNION", "SDIFF", "SINTERSTORE"}

commands(cmd, s, args, clk) ==
    CASE cmd = "SET" -> set(s, args, clk)
      [] cmd = "GET" -> get(s, args, clk)
      [] cmd = "DEL" -> delete(s, args, clk)
      [] cmd = "EXISTS" -> exists(s, args, clk)
      [] cmd = "KEYS" -> keys(s, args, clk)
      [] cmd = "FLUSHALL" -> flushall(s, args, clk)
      [] cmd = "EXPIRE" -> expire(s, args, clk)
      [] cmd = "EXPIREAT" -> expireat(s, args, clk)
      [] cmd = "TTL" -> ttl(s, args, clk)
      [] cmd = "PTTL" -> pttl(s, args, clk)
      [] cmd = "PERSIST" -> persist(s, args, clk)
      [] cmd = "TYPE" -> get_type(s, args, clk)
      [] cmd = "LPUSH" -> lpush(s, args, clk)
      [] cmd = "RPUSH" -> rpush(s, args, clk)
      [] cmd = "LPOP" -> lpop(s, args, clk)
      [] cmd = "RPOP" -> rpop(s, args, clk)
      [] cmd = "LRANGE" -> lrange(s, args, clk)
      [] cmd = "LLEN" -> llen(s, args, clk)
      [] cmd = "LINDEX" -> lindex(s, args, clk)
      [] cmd = "LSET" -> lset(s, args, clk)
      [] cmd = "HSET" -> hset(s, args, clk)
      [] cmd = "HGET" -> hget(s, args, clk)
      [] cmd = "HMSET" -> hmset(s, args, clk)
      [] cmd = "HMGET" -> hmget(s, args, clk)
      [] cmd = "HGETALL" -> hgetall(s, args, clk)
      [] cmd = "HDEL" -> hdel(s, args, clk)
      [] cmd = "HEXISTS" -> hexists(s, args, clk)
      [] cmd = "HLEN" -> hlen(s, args, clk)
      [] cmd = "SADD" -> sadd(s, args, clk)
      [] cmd = "SREM" -> srem(s, args, clk)
      [] cmd = "SMEMBERS" -> smembers(s, args, clk)
      [] cmd = "SISMEMBER" -> sismember(s, args, clk)
      [] cmd = "SCARD" -> scard(s, args, clk)
      [] cmd = "SINTER" -> sinter(s, args, clk)
      [] cmd = "SUNION" -> sunion(s, args, clk)
      [] cmd = "SDIFF" -> sdiff(s, args, clk)
      [] cmd = "SINTERSTORE" -> sinterstore(s, args, clk)

\* execute(): look the verb up, run the handler.  An exception that escapes
\* the handler escapes execute() too.
execute(s, command, args, clk) ==
    IF upper(command) \notin Registry
    THEN H(s, error("Unknown command"))
    ELSE commands(upper(command), s, args, clk)

\* ---------------------------------------------------------- persistence
\* The one element of a singleton set: binds the outcome of a call once.
Only(S) == CHOOSE x \in S : TRUE

\* The data directory: the snapshot file and the append-only file, each absent
\* (None) or holding its content, and how often the snapshot was replaced.
\* aof holds every line written through the writer's handle, of which the
\* first aof_synced were flushed and fsynced; rdb_tmp and aof_tmp are the
\* temporary siblings; faulty: the device rejects writes (IOError);
\* aof_detached: the writer's handle is on a file that was moved over.
NoFiles == [rdb |-> None, aof |-> None, rdb_writes |-> 0,
            aof_synced |-> 0, rdb_tmp |-> None, aof_tmp |-> None, faulty |-> FALSE,
            aof_detached |-> FALSE]

\* aof.py: the verbs the writer logs.
AofWriteCommands == {"SET", "DEL", "EXPIRE", "EXPIREAT", "PERSIST", "FLUSHALL"}

\* _format_command: "<int(time)> <COMMAND> <arg> <arg> ...\n", kept as the
\* timestamp and the words that follow it, a single space between them.
format_command(command, args, t) ==
    [timestamp |-> t \div TicksPerSec, words |-> <<upper(command)>> \o args]

\* log_command, on an open file: the file's lines after it.
log_command(lines, command, args, t) ==
    IF upper(command) \notin AofWriteCommands THEN lines
    ELSE Append(lines, format_command(command, args, t))

\* AOFWriter after __init__ at clock value t and open().
AOFWriter(sync_policy, t) ==
    [sync_policy |-> sync_policy, pending_writes |-> 0, last_sync_time |-> t]

\* AOFWriter.log_command with the file open: write, count the pending write
\* and, under 'always', flush and fsync; their IOError is caught and printed.
AOFWriter_log_command(w, fs, command, args, t) ==
    IF upper(command) \notin AofWriteCommands THEN [w |-> w, fs |-> fs]
    ELSE Only({IF w.sync_policy # "always" \/ fs.faulty
               THEN [w |-> [w EXCEPT !.pending_writes = @ + 1], fs |-> written]
               ELSE [w |-> [w EXCEPT !.pending_writes = 0, !.last_sync_time = t],
                     fs |-> [written EXCEPT !.aof_synced = Len(written.aof[1])]]
               : written \in {IF fs.aof_detached THEN fs
                               ELSE [fs EXCEPT !.aof =
                                        Some(log_command(@[1], command, args, t))]}})

\* sync_to_disk and should_sync.
sync_to_disk(w, fs, t) ==
    IF w.pending_writes = 0 \/ fs.faulty THEN [w |-> w, fs |-> fs]
    ELSE [w |-> [w EXCEPT !.pending_writes = 0, !.last_sync_time = t],
          fs |-> [fs EXCEPT !.aof_synced = Len(fs.aof[1])]]
should_sync(w, t) ==
    IF w.sync_policy = "always" THEN FALSE
    ELSE IF w.sync_policy = "everysec" THEN t - w.last_sync_time >= TicksPerSec
    ELSE FALSE

\* rewrite_aof, the loop over keys(): a SET line per key with its value as
\* str() prints it, and an EXPIRE line when ttl() is positive.  get and ttl
\* each read the clock.  The text of an aggregate is no value a command stored.
str_words(value) == IF IsStr(value) THEN value.str ELSE <<"<repr>">>
int_token(n) == CASE n = 0 -> "0" [] n = 1 -> "1" [] OTHER -> "<int>"
RECURSIVE RewriteLoop(_, _, _, _, _)
RewriteLoop(s, ks, clk, current_time, lines) ==
    IF ks = <<>> THEN Ret(s, lines)
    ELSE LET key == Head(ks)
             value == ds_get(s, key, clk[1])
             ttl_ == ds_ttl(value.s, key, clk[2])
             set_line == [timestamp |-> current_time,
                          words |-> <<"SET", key>> \o str_words(value.r)]
             expire_line == [timestamp |-> current_time,
                             words |-> <<"EXPIRE", key, int_token(ttl_.r)>>]
         IN IF IsNone(value.r)
            THEN RewriteLoop(value.s, Tail(ks), Tail(clk), current_time, lines)
            ELSE RewriteLoop(ttl_.s, Tail(ks), Tail(Tail(clk)), current_time,
                             IF ttl_.r > 0 THEN lines \o <<set_line, expire_line>>
                             ELSE Append(lines, set_line))

\* Clock reads of a rewrite: current_time, one per stored key in keys(), two
\* per key written.
RewriteReads(s) == 3 * Len(s.order) + 1

\* rewrite_aof up to the closed temporary file.  r is FALSE when an exception
\* was raised on the way.
rewrite_temp(fs, s, clk) ==
    IF fs.faulty THEN [fs |-> fs, s |-> s, r |-> FALSE]
    ELSE Only({IF ks.exc # "" THEN [fs |-> fs, s |-> ks.s, r |-> FALSE]
               ELSE Only({[fs |-> [fs EXCEPT !.aof_tmp = Some(c.r)], s |-> c.s, r |-> TRUE]
                          : c \in {RewriteLoop(ks.s, ks.r,
                                               SubSeq(clk, Len(s.order) + 2, Len(clk)),
                                               clk[1] \div TicksPerSec, <<>>)}})
               : ks \in {ds_keys(s, "*", Tail(clk))}})
\* shutil.move(temp_filename, self.filename): the writer's handle stays on the
\* file that was at the path; file_handle.close() and open() put it on the
\* new one.
move_aof_temp(fs) ==
    [fs EXCEPT !.aof = fs.aof_tmp, !.aof_tmp = None, !.aof_synced = 0,
               !.aof_detached = TRUE]
reopen(fs) == [fs EXCEPT !.aof_detached = FALSE]

\* recovery.py _replay_aof: line.split(' ', 2) and parts[2].split(), which
\* drops empty words.
parse_line(line) ==
    [command |-> upper(line.words[1]),
     args |-> SelectSeq(Tail(line.words), LAMBDA w : w # "")]

\* _execute_recovery_command: the six verbs, straight on the data store; the
\* value of SET is every word after the key.  A ValueError of int() is caught.
execute_recovery_command(s, command, args, t) ==
    CASE command = "SET" ->
            IF Len(args) >= 2 THEN ds_set(s, args[1], PyStr(Tail(args)), None) ELSE s
      [] command = "DEL" -> IF args # <<>> THEN ds_delete(s, args).s ELSE s
      [] command = "EXPIRE" ->
            IF Len(args) = 2 /\ args[2] \in IntTokens
            THEN ds_expire(s, args[1], int(args[2]), t, t).s ELSE s
      [] command = "EXPIREAT" ->
            IF Len(args) = 2 /\ args[2] \in IntTokens
            THEN ds_expire_at(s, args[1], int(args[2]) * TicksPerSec, t).s ELSE s
      [] command = "PERSIST" -> IF Len(args) = 1 THEN ds_persist(s, args[1], t).s ELSE s
      [] command = "FLUSHALL" -> ds_flush(s)
      [] OTHER -> s

\* _replay_aof: every line in file order, on the data store as it is; the
\* replay runs at clock value t.
RECURSIVE replay_aof(_, _, _)
replay_aof(s, lines, t) ==
    IF lines = <<>> THEN Ret(s, TRUE)
    ELSE LET c == parse_line(Head(lines))
         IN replay_aof(execute_recovery_command(s, c.command, c.args, t),
                       Tail(lines), t)

\* rdb.py _extract_data_store_state, the loop over keys(): get, ttl, get_type
\* and time.time() each read the clock.
RECURSIVE ExtractLoop(_, _, _, _)
ExtractLoop(s, ks, clk, state) ==
    IF ks = <<>> THEN Ret(s, state)
    ELSE LET key == Head(ks)
             value == ds_get(s, key, clk[1])
             ttl_ == ds_ttl(value.s, key, clk[2])
             data_type == ds_get_type(ttl_.s, key, clk[3])
             entry == [key |-> key, value |-> value.r, type |-> data_type.r,
                       ttl |-> IF ttl_.r > 0 THEN Some(ttl_.r) ELSE None,
                       expiry_time |-> IF ttl_.r > 0
                                       THEN Some(clk[4] + ttl_.r * TicksPerSec)
                                       ELSE None]
         IN IF IsNone(value.r)
            THEN ExtractLoop(value.s, Tail(ks), Tail(clk), state)
            ELSE ExtractLoop(data_type.s, Tail(ks), SubSeq(clk, 5, Len(clk)),
                             Append(state, entry))

extract_data_store_state(s, clk) ==
    Only({IF ks.exc # "" THEN ks
          ELSE ExtractLoop(ks.s, ks.r, SubSeq(clk, Len(s.order) + 1, Len(clk)), <<>>)
          : ks \in {ds_keys(s, "*", clk)}})

\* _serialize_data / _deserialize_data: header, MD5 of the payload, payload.
md5(payload) == <<"md5", payload>>
serialize_data(data) ==
    [magic |-> "REDIS", version |-> "0001", checksum |-> md5(data), payload |-> data]
\* A payload pickle.loads() cannot decode.
Undecodable == <<[undecodable |-> TRUE]>>
deserialize_data(binary_data) ==
    IF binary_data.magic # "REDIS" \/ binary_data.version # "0001"
    THEN Raise(binary_data, "Invalid RDB file format")
    ELSE IF binary_data.checksum # md5(binary_data.payload)
    THEN Raise(binary_data, "RDB checksum verification failed")
    ELSE IF binary_data.payload = Undecodable
    THEN Raise(binary_data, "invalid load key")
    ELSE Ret(binary_data, binary_data.payload)

\* Clock reads of a SAVE: one per stored key in keys(), four per extracted
\* key, then the two last-save stamps.
SaveReads(s) == 5 * Len(s.order) + 2

\* A file cut short by a write that failed: its header is incomplete.
Truncated(binary_data) == [binary_data EXCEPT !.magic = "RE"]

\* rdb.py create_snapshot, first half: extract, serialize, write the temporary
\* file.  r is FALSE when an exception was raised on the way.
write_temp_InPlace(fs, s, clk) ==
    Only({IF data.exc # "" THEN [fs |-> fs, s |-> data.s, r |-> FALSE]
          ELSE IF fs.faulty
          THEN [fs |-> [fs EXCEPT !.rdb = Some(Truncated(serialize_data(data.r))),
                                  !.rdb_tmp = Some(Truncated(serialize_data(data.r)))],
                s |-> data.s, r |-> FALSE]
          ELSE [fs |-> [fs EXCEPT !.rdb = Some(serialize_data(data.r)),
                                  !.rdb_tmp = Some(serialize_data(data.r))],
                s |-> data.s, r |-> TRUE]
          : data \in {extract_data_store_state(s, clk)}})
write_temp(fs, s, clk) ==
    Only({IF data.exc # "" THEN [fs |-> fs, s |-> data.s, r |-> FALSE]
          ELSE IF fs.faulty
          THEN [fs |-> [fs EXCEPT !.rdb_tmp = Some(Truncated(serialize_data(data.r)))],
                s |-> data.s, r |-> FALSE]
          ELSE [fs |-> [fs EXCEPT !.rdb_tmp = Some(serialize_data(data.r))],
                s |-> data.s, r |-> TRUE]
          : data \in {extract_data_store_state(s, clk)}})
\* shutil.move(temp_filename, self.filename), and the except branch's
\* os.remove(temp_filename) when the file exists.
move_temp(fs) == [fs EXCEPT !.rdb = fs.rdb_tmp, !.rdb_tmp = None, !.rdb_writes = @ + 1]
remove_temp(fs) == [fs EXCEPT !.rdb_tmp = None]

\* rdb.py create_snapshot: extract, serialize, write the temporary file, move
\* it over the snapshot.  Any exception on the way is caught: False.
create_snapshot(rdb_handler, fs, s, clk) ==
    Only({IF w.r
          THEN [rdb_handler |-> [rdb_handler EXCEPT !.last_save_time = clk[Len(clk) - 1]],
                fs |-> move_temp(w.fs), s |-> w.s, r |-> TRUE]
          ELSE [rdb_handler |-> rdb_handler, fs |-> remove_temp(w.fs),
                s |-> w.s, r |-> FALSE]
          : w \in {write_temp(fs, s, clk)}})

\* create_background_snapshot: the thread that will call create_snapshot on
\* the store it was handed (has_store FALSE: it was handed None).  at_issue and
\* issued_at record the keyspace and the clock when the thread was started.
Worker(has_store, s, t) ==
    [pc |-> "started", data_store |-> has_store, at_issue |-> s, issued_at |-> t]

\* config.py: the (seconds, changes) pairs as configured, and
\* should_auto_rdb_save at clock value t.
rdb_save_conditions == {<<1, 1>>}
should_auto_rdb_save(changes, last_save_time, t) ==
    \E c \in rdb_save_conditions :
        t - last_save_time >= c[1] * TicksPerSec /\ changes >= c[2]

\* manager.py ----
\* PersistenceManager after __init__, constructed at clock value t.
PersistenceManager(t, aof_enabled) ==
    [changes_since_save |-> 0, last_rdb_save_time |-> t,
     rdb_handler |-> [last_save_time |-> 0], aof_enabled |-> aof_enabled]

create_rdb_snapshot(pm, fs, s, clk) ==
    Only({[pm |-> IF c.r
                  THEN [pm EXCEPT !.rdb_handler = c.rdb_handler,
                                  !.last_rdb_save_time = clk[Len(clk)],
                                  !.changes_since_save = 0]
                  ELSE pm,
           fs |-> c.fs, s |-> c.s, r |-> c.r]
          : c \in {create_snapshot(pm.rdb_handler, fs, s, clk)}})

\* periodic_tasks: when a save condition holds, start the background
\* snapshot without a store and, the thread being started, reset the counter.
periodic_tasks(pm, t) ==
    IF should_auto_rdb_save(pm.changes_since_save, pm.last_rdb_save_time, t)
    THEN [pm EXCEPT !.changes_since_save = 0, !.last_rdb_save_time = t]
    ELSE pm

ManagerWriteCommands ==
    {"SET", "DEL", "EXPIRE", "EXPIREAT", "PERSIST", "FLUSHALL",
     "SETEX", "SETNX", "MSET", "MSETNX", "APPEND", "INCR", "DECR",
     "INCRBY", "DECRBY", "LPUSH", "RPUSH", "LPOP", "RPOP", "SADD",
     "SREM", "SPOP", "HSET", "HDEL", "HINCRBY", "ZADD", "ZREM"}

\* log_write_command: count the change.
log_write_command(pm, command) ==
    IF upper(command) \in ManagerWriteCommands
    THEN [pm EXCEPT !.changes_since_save = @ + 1] ELSE pm

\* With the append-only file enabled the manager hands the verb and its
\* arguments to the writer.
aof_log_write_command(pm, w, fs, command, args, t) ==
    IF pm.aof_enabled /\ w # None
    THEN Only({[w |-> Some(a.w), fs |-> a.fs]
               : a \in {AOFWriter_log_command(w[1], fs, command, args, t)}})
    ELSE [w |-> w, fs |-> fs]

\* command_handler.py execute(), once the handler has returned: a verb of the
\* handlers' write set goes to the persistence manager.
log_executed(pm, w, fs, command, args, t) ==
    IF pm # None /\ is_write_command(command)
    THEN Only({[pm |-> Some(log_write_command(pm[1], command)), w |-> a.w, fs |-> a.fs]
               : a \in {aof_log_write_command(pm[1], w, fs, command, args, t)}})
    ELSE [pm |-> pm, w |-> w, fs |-> fs]

\* recovery.py _load_from_rdb, the loop over the snapshot's keys.
RECURSIVE LoadLoop(_, _, _)
LoadLoop(s, keys_data, current_time) ==
    IF keys_data = <<>> THEN s
    ELSE LET key_data == Head(keys_data)
             expiry_time == key_data.expiry_time
         IN IF expiry_time # None /\ expiry_time[1] <= current_time
            THEN LoadLoop(s, Tail(keys_data), current_time)
            ELSE LoadLoop(ds_set(s, key_data.key, key_data.value, expiry_time),
                          Tail(keys_data), current_time)

\* A load that clears the keyspace before it has read the snapshot.
load_from_rdb_FlushesFirst(fs, s, t) ==
    IF fs.rdb = None THEN Ret(s, FALSE)
    ELSE LET rdb_data == deserialize_data(fs.rdb[1])
         IN IF rdb_data.exc # "" THEN Ret(ds_flush(s), FALSE)
            ELSE Ret(LoadLoop(ds_flush(s), rdb_data.r, t), TRUE)

load_from_rdb(fs, s, t) ==
    IF fs.rdb = None THEN Ret(s, FALSE)
    ELSE LET rdb_data == deserialize_data(fs.rdb[1])
         IN IF rdb_data.exc # "" THEN Ret(s, FALSE)
            ELSE Ret(LoadLoop(ds_flush(s), rdb_data.r, t), TRUE)

\* recover_data: the append-only file, when there is one, before the snapshot.
recover_data(fs, s, t) ==
    IF fs.aof = None /\ fs.rdb = None THEN Ret(s, TRUE)
    ELSE IF fs.aof # None THEN replay_aof(s, fs.aof[1], t)
    ELSE load_from_rdb(fs, s, t)

\* commands/persistence.py ----
P(pm, fs, s, r) == [pm |-> pm, fs |-> fs, s |-> s, reply |-> r]

save(pm, fs, s, args, clk) ==
    IF pm = None THEN P(pm, fs, s, error("persistence not enabled"))
    ELSE Only({P(Some(c.pm), c.fs, c.s, IF c.r THEN ok ELSE error("save failed"))
               : c \in {create_rdb_snapshot(pm[1], fs, s, clk)}})

debug_command(pm, fs, s, args, clk) ==
    IF args = <<>>
    THEN P(pm, fs, s, error("wrong number of arguments for 'debug' command"))
    ELSE IF args[1] # "RELOAD"
    THEN P(pm, fs, s, error("unknown DEBUG subcommand"))
    ELSE IF pm = None THEN P(pm, fs, s, error("persistence not enabled"))
    ELSE LET c == recover_data(fs, s, clk[1])
         IN P(pm, fs, c.s, IF c.r THEN ok ELSE error("reload failed"))

\* ----------------------------------------------------------- the machine
threads == <<bgsave, rewrite, savers>>
net == <<pubsub_manager, clients, sockets, published, running, server_socket,
        simple_server>>

\* The values n successive reads of time.time() may return: they start at
\* `now`, never go back and advance by at most MaxHandlerTicks in all.
Min(a, b) == IF a <= b THEN a ELSE b
RECURSIVE LaterReads(_, _, _)
LaterReads(n, t, last) ==
    IF n = 0 THEN {<<>>}
    ELSE UNION {{<<u>> \o rest : rest \in LaterReads(n - 1, u, last)} : u \in t..last}
ClockReads(n) ==
    {<<now>> \o rest :
        rest \in LaterReads(n - 1, now, Min(now + MaxHandlerTicks, MaxTime))}

\* Exploration bounds on the store a command leaves.
ActualMemory(s) ==
    LET RECURSIVE Sum(_)
        Sum(ks) == IF ks = <<>> THEN 0
                   ELSE calculate_memory_usage(Head(ks), s.data[Head(ks)].value)
                        + Sum(Tail(ks))
    IN Sum(s.order)
Drift(s) == s.memory_usage - ActualMemory(s)
InBounds(s) ==
    /\ \A k \in DOMAIN s.data :
          IsDeque(s.data[k].value) => Len(s.data[k].value.deque) <= MaxListLen
    /\ \A k \in DOMAIN s.data :
          s.data[k].expiry_time # None => s.data[k].expiry_time[1] <= MaxTime + 1
    /\ Drift(s) <= MaxDrift /\ Drift(s) >= 0 - MaxDrift

\* simple_tcp_server/server.py __init__ and storage.py __init__: not started,
\* an empty store, no client thread.
SimpleTCPServer == [running |-> FALSE, socket |-> None, store |-> <<>>, threads |-> <<>>]

\* rdb.py __init__: the lock is free, nobody is in create_snapshot.
Savers == {"main", "bg1", "bg2"}
SaversInit == savers = [lock |-> None, pc |-> [w \in Savers |-> "idle"]]

\* No pub/sub subscription, no connection, the event loop running on its
\* listening socket.
NetInit ==
    /\ pubsub_manager = [channels |-> <<>>, client_subscriptions |-> <<>>,
                         total_messages_published |-> 0, total_subscriptions |-> 0]
    /\ clients = <<>>
    /\ sockets = <<>>
    /\ published = 0
    /\ running = TRUE
    /\ server_socket = "listening"
    /\ simple_server = SimpleTCPServer

\* A command handler without a persistence manager, on an empty data store.
Init == /\ storage = DataStoreInit
        /\ now = 0
        /\ persistence_manager = None
        /\ files = NoFiles
        /\ aof_writer = None /\ bgsave = None /\ rewrite = None /\ SaversInit /\ NetInit

\* server.py _process_buffer and command_handler.py execute(): the handler
\* the registry holds for the verb has run with outcome r; a write command is
\* passed on to the persistence manager and the reply goes out on the
\* client's socket.
Dispatch(command, args, r, clk) ==
    \E p \in {IF r.exc = ""
               THEN log_executed(persistence_manager, aof_writer, files,
                                 command, args, clk[Len(clk)])
               ELSE [pm |-> persistence_manager, w |-> aof_writer, fs |-> files]} :
       /\ InBounds(r.s)
       /\ p.pm # None => p.pm[1].changes_since_save <= MaxChanges
       /\ storage' = r.s
       /\ persistence_manager' = p.pm
       /\ aof_writer' = p.w
       /\ files' = p.fs
       /\ now' = clk[Len(clk)]
       /\ UNCHANGED <<threads, net>>

\* The command lines issued.  Strings and sets are written under both keys,
\* lists and hashes under KeyA; an expiry is put on KeyA, and on KeyB by SET
\* only; each verb also comes with too few arguments.
KeySeqs == {<<KeyA>>, <<KeyB>>, <<KeyA, KeyB>>}
OneKey == {<<k>> : k \in Keys}
SetArgs == {<<k, "x">> : k \in Keys} \cup {<<k, "x", "EX", "1">> : k \in Keys}
               \cup {<<KeyA, "x", "EX", "x">>, <<KeyA>>}
ExistsArgs == {<<KeyA>>, <<KeyB, KeyA>>, <<>>}
KeysArgs == {<<>>, <<"b*">>}
ExpireArgs == {<<KeyA, "1">>, <<KeyA, "0">>, <<KeyA, "x">>, <<KeyA>>}
ExpireAtArgs == {<<KeyA, "1">>, <<KeyA>>}
PushArgs == {<<KeyA, "x">>, <<KeyA, "yy">>, <<KeyA, "x", "yy">>, <<KeyA>>}
IndexArgs == {<<KeyA, "0">>, <<KeyA, "-1">>, <<KeyA, "x">>, <<KeyA>>}
LsetArgs == {<<KeyA, "0", "yy">>, <<KeyA, "-1", "x">>, <<KeyA, "x", "x">>, <<KeyA>>}
LrangeArgs == {<<KeyA, "0", "-1">>, <<KeyA, "x", "0">>, <<KeyA>>}
HsetArgs == {<<KeyA, "x", "x">>, <<KeyA, "yy", "x">>, <<KeyA, "x", "yy">>, <<KeyA, "x">>}
HmsetArgs == {<<KeyA, "x", "x", "yy", "x">>, <<KeyA, "x">>}
FieldArgs == {<<KeyA, "x">>, <<KeyA>>}
FieldsArgs == {<<KeyA, "x">>, <<KeyA, "x", "yy">>, <<KeyA>>}
MemberArgs == {<<k, "x">> : k \in Keys} \cup {<<KeyA>>}
RemoveArgs == {<<k, e>> : k \in Keys, e \in Elems} \cup {<<KeyA>>}
MembersArgs == RemoveArgs \cup {<<k, "x", "yy">> : k \in Keys}
SetKeySeqs == {<<KeyA>>, <<KeyA, KeyB>>, <<KeyB, KeyA>>}
StoreArgs == {<<d>> \o ks : d \in Keys, ks \in SetKeySeqs} \cup {<<KeyA>>}

\* A handler that looks at a key reads the clock twice for it: once in its
\* own _is_key_valid call, once inside get_or_create_*.
Reads(ks) == IF ks = <<>> THEN 1 ELSE 2 * Len(ks)

SET ==
    \E args \in SetArgs : \E clk \in ClockReads(1) :
        \E r \in {set(storage, args, clk)} : Dispatch("SET", args, r, clk)
GET ==
    \E args \in OneKey \cup {<<>>} : \E clk \in ClockReads(1) :
        \E r \in {get(storage, args, clk)} : Dispatch("GET", args, r, clk)
DEL ==
    \E args \in KeySeqs \cup {<<>>} : \E clk \in ClockReads(1) :
        \E r \in {delete(storage, args, clk)} : Dispatch("DEL", args, r, clk)
EXISTS ==
    \E args \in ExistsArgs : \E clk \in ClockReads(2) :
        \E r \in {exists(storage, args, clk)} : Dispatch("EXISTS", args, r, clk)
KEYS ==
    \E args \in KeysArgs : \E clk \in ClockReads(2) :
        \E r \in {keys(storage, args, clk)} : Dispatch("KEYS", args, r, clk)
FLUSHALL ==
    \E args \in {<<>>} : \E clk \in ClockReads(1) :
        \E r \in {flushall(storage, args, clk)} : Dispatch("FLUSHALL", args, r, clk)
EXPIRE ==
    \E args \in ExpireArgs : \E clk \in ClockReads(2) :
        \E r \in {expire(storage, args, clk)} : Dispatch("EXPIRE", args, r, clk)
EXPIREAT ==
    \E args \in ExpireAtArgs : \E clk \in ClockReads(2) :
        \E r \in {expireat(storage, args, clk)} : Dispatch("EXPIREAT", args, r, clk)
TTL ==
    \E args \in OneKey \cup {<<>>} : \E clk \in ClockReads(1) :
        \E r \in {ttl(storage, args, clk)} : Dispatch("TTL", args, r, clk)
PTTL ==
    \E args \in OneKey \cup {<<>>} : \E clk \in ClockReads(1) :
        \E r \in {pttl(storage, args, clk)} : Dispatch("PTTL", args, r, clk)
PERSIST ==
    \E args \in OneKey \cup {<<>>} : \E clk \in ClockReads(1) :
        \E r \in {persist(storage, args, clk)} : Dispatch("PERSIST", args, r, clk)
TYPE ==
    \E args \in OneKey \cup {<<>>} : \E clk \in ClockReads(1) :
        \E r \in {get_type(storage, args, clk)} : Dispatch("TYPE", args, r, clk)

LPUSH ==
    \E args \in PushArgs : \E clk \in ClockReads(1) :
        \E r \in {lpush(storage, args, clk)} : Dispatch("LPUSH", args, r, clk)
RPUSH ==
    \E args \in PushArgs : \E clk \in ClockReads(1) :
        \E r \in {rpush(storage, args, clk)} : Dispatch("RPUSH", args, r, clk)
LPOP ==
    \E args \in {<<KeyA>>, <<>>} : \E clk \in ClockReads(2) :
        \E r \in {lpop(storage, args, clk)} : Dispatch("LPOP", args, r, clk)
RPOP ==
    \E args \in {<<KeyA>>, <<>>} : \E clk \in ClockReads(2) :
        \E r \in {rpop(storage, args, clk)} : Dispatch("RPOP", args, r, clk)
LRANGE ==
    \E args \in LrangeArgs : \E clk \in ClockReads(2) :
        \E r \in {lrange(storage, args, clk)} : Dispatch("LRANGE", args, r, clk)
LLEN ==
    \E args \in {<<KeyA>>, <<>>} : \E clk \in ClockReads(2) :
        \E r \in {llen(storage, args, clk)} : Dispatch("LLEN", args, r, clk)
LINDEX ==
    \E args \in IndexArgs : \E clk \in ClockReads(2) :
        \E r \in {lindex(storage, args, clk)} : Dispatch("LINDEX", args, r, clk)
LSET ==
    \E args \in LsetArgs : \E clk \in ClockReads(2) :
        \E r \in {lset(storage, args, clk)} : Dispatch("LSET", args, r, clk)

HSET ==
    \E args \in HsetArgs : \E clk \in ClockReads(1) :
        \E r \in {hset(storage, args, clk)} : Dispatch("HSET", args, r, clk)
HMSET ==
    \E args \in HmsetArgs : \E clk \in ClockReads(1) :
        \E r \in {hmset(storage, args, clk)} : Dispatch("HMSET", args, r, clk)
HGET ==
    \E args \in FieldArgs : \E clk \in ClockReads(2) :
        \E r \in {hget(storage, args, clk)} : Dispatch("HGET", args, r, clk)
HMGET ==
    \E args \in FieldsArgs : \E clk \in ClockReads(2) :
        \E r \in {hmget(storage, args, clk)} : Dispatch("HMGET", args, r, clk)
HGETALL ==
    \E args \in {<<KeyA>>, <<>>} : \E clk \in ClockReads(2) :
        \E r \in {hgetall(storage, args, clk)} : Dispatch("HGETALL", args, r, clk)
HDEL ==
    \E args \in FieldsArgs : \E clk \in ClockReads(2) :
        \E r \in {hdel(storage, args, clk)} : Dispatch("HDEL", args, r, clk)
HEXISTS ==
    \E args \in FieldArgs : \E clk \in ClockReads(2) :
        \E r \in {hexists(storage, args, clk)} : Dispatch("HEXISTS", args, r, clk)
HLEN ==
    \E args \in {<<KeyA>>, <<>>} : \E clk \in ClockReads(2) :
        \E r \in {hlen(storage, args, clk)} : Dispatch("HLEN", args, r, clk)

SADD ==
    \E args \in MembersArgs : \E clk \in ClockReads(1) :
        \E r \in {sadd(storage, args, clk)} : Dispatch("SADD", args, r, clk)
SREM ==
    \E args \in RemoveArgs : \E clk \in ClockReads(2) :
        \E r \in {srem(storage, args, clk)} : Dispatch("SREM", args, r, clk)
SMEMBERS ==
    \E args \in OneKey \cup {<<>>} : \E clk \in ClockReads(2) :
        \E r \in {smembers(storage, args, clk)} : Dispatch("SMEMBERS", args, r, clk)
SISMEMBER ==
    \E args \in MemberArgs : \E clk \in ClockReads(2) :
        \E r \in {sismember(storage, args, clk)} : Dispatch("SISMEMBER", args, r, clk)
SCARD ==
    \E args \in OneKey \cup {<<>>} : \E clk \in ClockReads(2) :
        \E r \in {scard(storage, args, clk)} : Dispatch("SCARD", args, r, clk)
SINTER ==
    \E args \in SetKeySeqs \cup {<<>>} : \E clk \in ClockReads(Reads(args)) :
        \E r \in {sinter(storage, args, clk)} : Dispatch("SINTER", args, r, clk)
SUNION ==
    \E args \in SetKeySeqs \cup {<<>>} : \E clk \in ClockReads(Reads(args)) :
        \E r \in {sunion(storage, args, clk)} : Dispatch("SUNION", args, r, clk)
SDIFF ==
    \E args \in SetKeySeqs \cup {<<>>} : \E clk \in ClockReads(Reads(args)) :
        \E r \in {sdiff(storage, args, clk)} : Dispatch("SDIFF", args, r, clk)
SINTERSTORE ==
    \E args \in StoreArgs : \E clk \in ClockReads(Reads(Tail(args))) :
        \E r \in {sinterstore(storage, args, clk)} : Dispatch("SINTERSTORE", args, r, clk)

\* server.py _background_cleanup: the sampled expiration of one loop tick.
\* random.sample() draws min(20, len) keys: every stored key, as long as at
\* most 20 keys are stored.
BackgroundCleanup ==
    /\ \E sample_keys \in Samples(storage) :
          storage' = cleanup_expired_keys(storage, sample_keys, now).s
    /\ UNCHANGED <<now, persistence_manager, files, aof_writer, threads, net>>

Tick == /\ now < MaxTime
        /\ now' = now + 1
        /\ UNCHANGED <<storage, persistence_manager, files, aof_writer, threads, net>>

\* SAVE and DEBUG: handlers that work on the persistence manager and the files.
Persist(r, t) ==
    /\ InBounds(r.s)
    /\ storage' = r.s
    /\ persistence_manager' = r.pm
    /\ files' = r.fs
    /\ now' = t
    /\ UNCHANGED <<aof_writer, threads, net>>
SAVE ==
    /\ files.rdb_writes < MaxSnapshots
    /\ IF bgsave = None THEN TRUE ELSE bgsave[1].pc # "written"
    /\ \E clk \in ClockReads(SaveReads(storage)) :
          \E r \in {save(persistence_manager, files, storage, <<>>, clk)} :
              Persist(r, clk[Len(clk)])
DEBUG ==
    \E args \in {<<"RELOAD">>, <<>>} :
        \E r \in {debug_command(persistence_manager, files, storage, args, <<now>>)} :
            Persist(r, now)

vars == <<storage, now, persistence_manager, files, aof_writer, bgsave, rewrite,
         pubsub_manager, clients, sockets, published, running, server_socket,
         simple_server, savers>>
Next ==
    \/ SET \/ GET \/ DEL \/ EXISTS \/ KEYS \/ FLUSHALL
    \/ EXPIRE \/ EXPIREAT \/ TTL \/ PTTL \/ PERSIST \/ TYPE
    \/ LPUSH \/ RPUSH \/ LPOP \/ RPOP \/ LRANGE \/ LLEN \/ LINDEX \/ LSET
    \/ HSET \/ HMSET \/ HGET \/ HMGET \/ HGETALL \/ HDEL \/ HEXISTS \/ HLEN
    \/ SADD \/ SREM \/ SMEMBERS \/ SISMEMBER \/ SCARD
    \/ SINTER \/ SUNION \/ SDIFF \/ SINTERSTORE
    \/ BackgroundCleanup \/ Tick
Spec == Init /\ [][Next]_vars

\* The server with its persistence manager: snapshots only, as manager.py
\* builds it, and no append-only file in the data directory.
InitRDB == /\ storage = DataStoreInit
           /\ now = 0
           /\ persistence_manager = Some(PersistenceManager(0, FALSE))
           /\ files = NoFiles
           /\ aof_writer = None /\ bgsave = None /\ rewrite = None /\ SaversInit /\ NetInit
NextRDB == Next \/ SAVE \/ DEBUG
SpecRDB == InitRDB /\ [][NextRDB]_vars

\* BGSAVE: the handler starts the snapshot thread on the live store and
\* replies.  One snapshot thread at a time is followed.
WorkerIdle == IF bgsave = None THEN TRUE ELSE bgsave[1].pc \in {"completed", "failed"}
BGSAVE ==
    /\ persistence_manager # None
    /\ WorkerIdle
    /\ bgsave' = Some(Worker(TRUE, storage, now))
    /\ UNCHANGED <<storage, now, persistence_manager, files, aof_writer, rewrite, savers, net>>

\* server.py _background_persistence_tasks: periodic_tasks of the manager.
PeriodicTasks ==
    /\ persistence_manager # None
    /\ WorkerIdle
    /\ should_auto_rdb_save(persistence_manager[1].changes_since_save,
                            persistence_manager[1].last_rdb_save_time, now)
    /\ persistence_manager' = Some(periodic_tasks(persistence_manager[1], now))
    /\ bgsave' = Some(Worker(FALSE, storage, now))
    /\ UNCHANGED <<storage, now, files, aof_writer, rewrite, savers, net>>

\* The snapshot thread inside create_snapshot, in two steps: up to the written
\* temporary file (under the handler's lock from here on), then the move.
\* Without a store the extraction raises; it also raises when the main thread
\* changes the dictionary under the thread's iteration.  An exception removes
\* the temporary file and ends the thread.
BgWrite ==
    /\ bgsave # None /\ bgsave[1].pc = "started"
    /\ \/ /\ bgsave[1].data_store
          /\ \E clk \in ClockReads(SaveReads(storage)) :
                \E w \in {write_temp(files, storage, clk)} :
                    /\ storage' = w.s
                    /\ files' = IF w.r THEN w.fs ELSE remove_temp(w.fs)
                    /\ bgsave' = Some([bgsave[1] EXCEPT
                                           !.pc = IF w.r THEN "written" ELSE "failed"])
                    /\ now' = clk[Len(clk)]
       \/ /\ bgsave' = Some([bgsave[1] EXCEPT !.pc = "failed"])
          /\ UNCHANGED <<storage, files, now>>
    /\ UNCHANGED <<persistence_manager, aof_writer, rewrite, savers, net>>
BgMove ==
    /\ bgsave # None /\ bgsave[1].pc = "written"
    /\ files.rdb_writes < MaxSnapshots
    /\ IF files.faulty
       THEN /\ files' = remove_temp(files)
            /\ bgsave' = Some([bgsave[1] EXCEPT !.pc = "failed"])
            /\ UNCHANGED persistence_manager
       ELSE /\ files' = move_temp(files)
            /\ bgsave' = Some([bgsave[1] EXCEPT !.pc = "completed"])
            /\ persistence_manager' =
                   Some([persistence_manager[1] EXCEPT !.rdb_handler.last_save_time = now])
    /\ UNCHANGED <<storage, now, aof_writer, rewrite, savers, net>>

\* BGREWRITEAOF: the rewrite is started on the live store, on a thread of its
\* own, and the handler replies.
BGREWRITEAOF ==
    /\ persistence_manager # None /\ aof_writer # None
    /\ rewrite = None
    /\ rewrite' = Some([pc |-> "started"])
    /\ UNCHANGED <<storage, now, persistence_manager, files, aof_writer, bgsave, savers, net>>

\* The rewrite thread inside rewrite_aof, in three steps: the temporary file,
\* the move, the reopening of the writer.  An exception removes the temporary
\* file and ends the rewrite.
RwWrite ==
    /\ rewrite # None /\ rewrite[1].pc = "started"
    /\ \E clk \in ClockReads(RewriteReads(storage)) :
          \E c \in {rewrite_temp(files, storage, clk)} :
              /\ storage' = c.s
              /\ files' = c.fs
              /\ rewrite' = Some([pc |-> IF c.r THEN "written" ELSE "failed"])
              /\ now' = clk[Len(clk)]
    /\ UNCHANGED <<persistence_manager, aof_writer, bgsave, savers, net>>
RwMove ==
    /\ rewrite # None /\ rewrite[1].pc = "written"
    /\ IF files.faulty
       THEN /\ files' = [files EXCEPT !.aof_tmp = None]
            /\ rewrite' = Some([pc |-> "failed"])
       ELSE /\ files' = move_aof_temp(files)
            /\ rewrite' = Some([pc |-> "moved"])
    /\ UNCHANGED <<storage, now, persistence_manager, aof_writer, bgsave, savers, net>>
RwReopen ==
    /\ rewrite # None /\ rewrite[1].pc = "moved"
    /\ files' = reopen(files)
    /\ rewrite' = Some([pc |-> "done"])
    /\ UNCHANGED <<storage, now, persistence_manager, aof_writer, bgsave, savers, net>>

\* The device starts or stops rejecting writes.
DiskFault ==
    /\ files' = [files EXCEPT !.faulty = ~@]
    /\ UNCHANGED <<storage, now, persistence_manager, aof_writer, threads, net>>

\* The periodic sync of the append-only file: should_sync, then sync_to_disk.
AofSync ==
    /\ aof_writer # None
    /\ should_sync(aof_writer[1], now)
    /\ \E r \in {sync_to_disk(aof_writer[1], files, now)} :
          /\ aof_writer' = Some(r.w)
          /\ files' = r.fs
    /\ UNCHANGED <<storage, now, persistence_manager, threads, net>>

\* The server with the append-only file enabled: the writer has opened the
\* file, which creates it.
SyncPolicies == {"always", "everysec"}
InitAOF == /\ storage = DataStoreInit
           /\ now = 0
           /\ persistence_manager = Some(PersistenceManager(0, TRUE))
           /\ files = [NoFiles EXCEPT !.aof = Some(<<>>)]
           /\ aof_writer \in {Some(AOFWriter(p, 0)) : p \in SyncPolicies}
           /\ bgsave = None /\ rewrite = None /\ SaversInit /\ NetInit
NextAOF == Next \/ DEBUG \/ DiskFault \/ AofSync
SpecAOF == InitAOF /\ [][NextAOF]_vars

\* The server with snapshots, background saves and the periodic tasks, under
\* the commands that store, change and expire keys, on a device that may
\* reject writes.
NextBG ==
    \/ SET \/ DEL \/ EXPIRE \/ LPUSH \/ Tick
    \/ SAVE \/ BGSAVE \/ BgWrite \/ BgMove \/ PeriodicTasks \/ DiskFault
SpecBG == InitRDB /\ [][NextBG]_vars

\* The server with the append-only file enabled, under the commands that
\* store and delete strings, with one rewrite of the file.
NextRewrite ==
    \/ SET \/ DEL \/ Tick \/ DiskFault
    \/ BGREWRITEAOF \/ RwWrite \/ RwMove \/ RwReopen
SpecRewrite == InitAOF /\ [][NextRewrite]_vars

\* The server at start-up, in a data directory an earlier run left: the
\* append-only file as log_command wrote it, the snapshot as create_snapshot
\* wrote it, each of them there or not, the append-only file enabled or not.
\* start() recovers into the data store.
LeftStores == {DataStoreInit} \cup {set(DataStoreInit, <<k, "x">>, <<0>>).s : k \in Keys}
LeftAofs ==
    {<<>>} \cup {log_command(<<>>, "SET", <<k, "x">>, 0) : k \in Keys}
           \cup {log_command(log_command(<<>>, "SET", <<KeyA, "x">>, 0), "DEL", <<KeyA>>, 0)}
LeftRdbs ==
    {serialize_data(extract_data_store_state(s, [i \in 1..SaveReads(s) |-> 0]).r)
        : s \in LeftStores}
InitRecovery ==
    /\ storage = DataStoreInit
    /\ now = 0
    /\ \E enabled \in BOOLEAN :
          persistence_manager = Some(PersistenceManager(0, enabled))
    /\ \E aof \in {None} \cup {Some(l) : l \in LeftAofs} :
          \E rdb \in {None} \cup {Some(b) : b \in LeftRdbs} :
              files = [NoFiles EXCEPT !.aof = aof, !.rdb = rdb]
    /\ aof_writer = None /\ bgsave = None /\ rewrite = None /\ SaversInit /\ NetInit
Recover ==
    /\ \E r \in {recover_data(files, storage, now)} : storage' = r.s
    /\ UNCHANGED <<now, persistence_manager, files, aof_writer, threads, net>>
NextRecovery == Recover \/ Tick
SpecRecovery == InitRecovery /\ [][NextRecovery]_vars

\* ------------------------------------------------- sampled expiration
\* A keyspace of one key more than a sample holds, as SET and SET ... EX
\* commands issued at time 0 leave it: string values, up to two keys that
\* expire after one second, at most one (the first or the last) that expires
\* after two.
SweepKeys == [i \in 1..(SampleSize + 1) |-> "k" \o ToString(i)]
RECURSIVE Populate(_, _, _, _)
Populate(s, i, due, later) ==
    IF i > Len(SweepKeys) THEN s
    ELSE Populate(ds_set(s, SweepKeys[i], PyStr(<<"x">>),
                         IF i \in due THEN Some(TicksPerSec)
                         ELSE IF i \in later THEN Some(2 * TicksPerSec)
                         ELSE None),
                  i + 1, due, later)
InitSweep ==
    /\ \E due \in {{}} \cup {{i, j} : i, j \in DOMAIN SweepKeys} :
          \E later \in {{}, {1}, {Len(SweepKeys)}} :
              storage = Populate(DataStoreInit, 1, due, later)
    /\ now = 0
    /\ persistence_manager = None
    /\ files = NoFiles
    /\ aof_writer = None /\ bgsave = None /\ rewrite = None /\ SaversInit /\ NetInit
NextSweep == BackgroundCleanup \/ Tick
SpecSweep == InitSweep /\ [][NextSweep]_vars

\* ------------------------------------------------- a damaged snapshot
\* The server in a data directory that holds a snapshot an earlier run left,
\* intact or damaged on the disk since: its header overwritten (magic,
\* version), a checksum that does not match, a payload that does not decode.
Damaged(b) ==
    {[b EXCEPT !.magic = "RE"], [b EXCEPT !.version = "0002"],
     [b EXCEPT !.checksum = md5(Undecodable)],
     [b EXCEPT !.payload = Undecodable, !.checksum = md5(Undecodable)]}
InitReload ==
    /\ storage = DataStoreInit
    /\ now = 0
    /\ persistence_manager = Some(PersistenceManager(0, FALSE))
    /\ \E b \in LeftRdbs : \E rdb \in {b} \cup Damaged(b) :
          files = [NoFiles EXCEPT !.rdb = Some(rdb)]
    /\ aof_writer = None /\ bgsave = None /\ rewrite = None /\ SaversInit /\ NetInit
NextReload == SET \/ DEL \/ EXPIRE \/ LPUSH \/ Tick \/ DEBUG
SpecReload == InitReload /\ [][NextReload]_vars

\* ------------------------------------------------ concurrent snapshots
\* RDBHandler.create_snapshot, called by SAVE on the main thread ("main") and
\* by the threads of two BGSAVE commands, step by step: the call, the entry
\* into `with self._lock`, the extraction and the write of the temporary
\* file, the move (or, after an exception, the removal of the temporary
\* file), the exit from the with block.
Position(saver, pc) == [savers EXCEPT !.pc[saver] = pc]
\* SAVE reaches create_snapshot on the main thread; BGSAVE, handled on the
\* main thread, starts a thread that will.
Call(saver) ==
    /\ persistence_manager # None
    /\ savers.pc["main"] = "idle" /\ savers.pc[saver] = "idle"
    /\ files.rdb_writes < MaxSnapshots
    /\ savers' = Position(saver, "called")
    /\ UNCHANGED <<storage, now, persistence_manager, files, aof_writer, bgsave,
                   rewrite, net>>
\* An entry into the with block that does not wait for the lock.
Acquire_Unlocked(saver) ==
    /\ savers.pc[saver] = "called"
    /\ savers' = [savers EXCEPT !.lock = Some(saver), !.pc[saver] = "locked"]
    /\ UNCHANGED <<storage, now, persistence_manager, files, aof_writer, bgsave,
                   rewrite, net>>

Acquire(saver) ==
    /\ savers.pc[saver] = "called"
    /\ savers.lock = None
    /\ savers' = [savers EXCEPT !.lock = Some(saver), !.pc[saver] = "locked"]
    /\ UNCHANGED <<storage, now, persistence_manager, files, aof_writer, bgsave,
                   rewrite, net>>
WriteTemp(saver) ==
    /\ savers.pc[saver] = "locked"
    /\ \E clk \in ClockReads(SaveReads(storage)) :
          \E w \in {write_temp(files, storage, clk)} :
              /\ storage' = w.s
              /\ files' = w.fs
              /\ savers' = Position(saver, IF w.r THEN "written" ELSE "raised")
              /\ now' = clk[Len(clk)]
    /\ UNCHANGED <<persistence_manager, aof_writer, bgsave, rewrite, net>>
MoveTemp(saver) ==
    /\ savers.pc[saver] = "written"
    /\ IF files.faulty \/ files.rdb_tmp = None
       THEN /\ savers' = Position(saver, "raised")
            /\ UNCHANGED <<files, persistence_manager>>
       ELSE /\ files' = move_temp(files)
            /\ savers' = Position(saver, "moved")
            /\ persistence_manager' =
                   Some([persistence_manager[1] EXCEPT !.rdb_handler.last_save_time = now])
    /\ UNCHANGED <<storage, now, aof_writer, bgsave, rewrite, net>>
RemoveTemp(saver) ==
    /\ savers.pc[saver] = "raised"
    /\ files' = remove_temp(files)
    /\ savers' = Position(saver, "removed")
    /\ UNCHANGED <<storage, now, persistence_manager, aof_writer, bgsave, rewrite, net>>
\* The exit from the with block; on the main thread create_rdb_snapshot then
\* stamps the save it was told succeeded.
Release(saver) ==
    /\ savers.pc[saver] \in {"moved", "removed"}
    /\ savers' = [savers EXCEPT !.lock = None, !.pc[saver] = "idle"]
    /\ persistence_manager' =
           IF saver = "main" /\ savers.pc[saver] = "moved"
           THEN Some([persistence_manager[1] EXCEPT !.last_rdb_save_time = now,
                                                    !.changes_since_save = 0])
           ELSE persistence_manager
    /\ UNCHANGED <<storage, now, files, aof_writer, bgsave, rewrite, net>>
\* The main thread handles commands while it is not inside SAVE.
NextSavers ==
    \/ \E saver \in Savers : Call(saver)
    \/ \E saver \in Savers : Acquire(saver)
    \/ \E saver \in Savers : WriteTemp(saver)
    \/ \E saver \in Savers : MoveTemp(saver)
    \/ \E saver \in Savers : RemoveTemp(saver)
    \/ \E saver \in Savers : Release(saver)
    \/ savers.pc["main"] = "idle" /\ SET
    \/ savers.pc["main"] = "idle" /\ DEL
    \/ Tick \/ DiskFault
SpecSavers == InitRDB /\ [][NextSavers]_vars

\* ------------------------------------------------------------- pub/sub
\* The connections and channel names a run uses, and how many PUBLISH
\* commands it issues; the n-th PUBLISH carries the message n.
Clients == {"c1", "c2"}
Channels == {"news", "ops"}
MaxPublishes == 2

\* A defaultdict(set): a read of an absent key yields the empty set, an
\* indexing creates the key.
Get(m, k) == IF k \in DOMAIN m THEN m[k] ELSE {}
Touch(m, k) == IF k \in DOMAIN m THEN m ELSE Put(m, k, {})

\* The orders in which a set can be listed.
RECURSIVE Orders(_)
Orders(S) == IF S = {} THEN {<<>>}
             ELSE UNION {{<<x>> \o o : o \in Orders(S \ {x})} : x \in S}

\* pubsub.py __init__: no channel, no client, the counters at zero.
PubSubManager == [channels |-> <<>>, client_subscriptions |-> <<>>,
                  total_messages_published |-> 0, total_subscriptions |-> 0]

\* What a manager method leaves and returns: the manager, the value returned,
\* and the exception raised, if any.
PRet(pm, r) == [pm |-> pm, r |-> r, exc |-> ""]
PRaise(pm, e) == [pm |-> pm, r |-> PyNone, exc |-> e]

\* PubSubManager.subscribe: each channel the client does not have yet is added
\* to both maps; every channel gets a (channel, count) pair.
RECURSIVE PubSubManager_subscribe(_, _, _, _)
PubSubManager_subscribe(pm, client, chs, results) ==
    IF chs = <<>> THEN PRet(pm, results)
    ELSE LET channel == Head(chs)
             cs == Touch(pm.client_subscriptions, client)
             p1 == IF channel \notin cs[client]
                   THEN [pm EXCEPT
                           !.channels = Put(@, channel, Get(@, channel) \cup {client}),
                           !.client_subscriptions = Put(cs, client, cs[client] \cup {channel}),
                           !.total_subscriptions = @ + 1]
                   ELSE [pm EXCEPT !.client_subscriptions = cs]
         IN PubSubManager_subscribe(p1, client, Tail(chs),
                Append(results, <<channel, Cardinality(p1.client_subscriptions[client])>>))

\* PubSubManager.unsubscribe: without channels, all of the client's, in the
\* order `listed` in which its set is listed.  The first channel is removed
\* from both maps, an emptied channel is deleted, and the count that follows
\* reads self.client_pattern_subscriptions, an attribute the class never
\* defines: AttributeError, with the later channels untouched.
PubSubManager_unsubscribe(pm, client, chs, listed) ==
    LET cs == Touch(pm.client_subscriptions, client)
        channels == IF chs = <<>> THEN listed ELSE chs
    IN  IF channels = <<>> THEN PRet([pm EXCEPT !.client_subscriptions = cs], <<>>)
        ELSE LET channel == channels[1]
                 left == Get(pm.channels, channel) \ {client}
             IN  IF channel \in cs[client]
                 THEN PRaise([pm EXCEPT
                                !.channels = IF left = {} THEN Drop(@, channel)
                                             ELSE Put(@, channel, left),
                                !.client_subscriptions = Put(cs, client, cs[client] \ {channel}),
                                !.total_subscriptions = @ - 1],
                             "AttributeError")
                 ELSE PRaise([pm EXCEPT !.client_subscriptions = cs], "AttributeError")

\* PubSubManager._cleanup_client: the client leaves every channel it is
\* subscribed to, emptied channels are deleted; the pattern loop that follows
\* reads self.client_pattern_subscriptions: AttributeError, before the client's
\* own entry is deleted.
cleanup_client(pm, client) ==
    LET cs == Touch(pm.client_subscriptions, client)
    IN  PRaise([pm EXCEPT
                  !.channels = [ch \in {c \in DOMAIN @ : c \notin cs[client] \/ @[c] \ {client} # {}}
                                  |-> IF ch \in cs[client] THEN @[ch] \ {client} ELSE @[ch]],
                  !.client_subscriptions = cs],
               "AttributeError")

\* socket.send: on an open socket the bytes reach the peer; on a socket the
\* peer has reset or the server has closed it raises.
CanSend(socks, client) == socks[client].state = "open"
send(socks, client, response) == [socks EXCEPT ![client].sent = Append(@, response)]

\* PubSubManager.publish: the channel's subscribers, in the order `order` in
\* which the copy of their set is iterated, are sent the message one after the
\* other; a send that raises has the client cleaned up, and an exception of
\* the clean-up leaves publish with the later subscribers not served.
RECURSIVE publish_loop(_, _, _, _, _)
publish_loop(pm, socks, order, response, delivered_count) ==
    IF order = <<>>
    THEN [pm |-> [pm EXCEPT !.total_messages_published = @ + 1], socks |-> socks,
          r |-> delivered_count, exc |-> ""]
    ELSE LET client == Head(order)
         IN  IF CanSend(socks, client)
             THEN publish_loop(pm, send(socks, client, response), Tail(order),
                               response, delivered_count + 1)
             ELSE LET c == cleanup_client(pm, client)
                  IN  IF c.exc # ""
                      THEN [pm |-> c.pm, socks |-> socks, r |-> PyNone, exc |-> c.exc]
                      ELSE publish_loop(c.pm, socks, Tail(order), response, delivered_count)
PubSubManager_publish(pm, socks, channel, message, order) ==
    IF Get(pm.channels, channel) = {}
    THEN [pm |-> pm, socks |-> socks, r |-> 0, exc |-> ""]
    ELSE publish_loop(pm, socks, order,
                      array(<<bulk_string(PyStr("message")), bulk_string(PyStr(channel)),
                              bulk_string(PyStr(message))>>), 0)

\* commands/pubsub.py: the handlers.  A reply is what the handler returns; an
\* exception of the manager leaves the handler and execute().
confirmations(kind, results) ==
    [i \in 1..Len(results) |->
        array(<<bulk_string(PyStr(kind)), bulk_string(PyStr(results[i][1])),
                integer(results[i][2])>>)]
subscribe(pm, current_client, chs) ==
    IF chs = <<>> THEN [pm |-> pm, reply |-> error("Wrong number of arguments for 'subscribe' command"), exc |-> ""]
    ELSE IF current_client = None THEN [pm |-> pm, reply |-> error("No client context available"), exc |-> ""]
    ELSE LET u == PubSubManager_subscribe(pm, current_client[1], chs, <<>>)
         IN  [pm |-> u.pm, reply |-> confirmations("subscribe", u.r), exc |-> ""]
unsubscribe(pm, current_client, chs, listed) ==
    IF current_client = None THEN [pm |-> pm, reply |-> error("no client context available"), exc |-> ""]
    ELSE LET u == PubSubManager_unsubscribe(pm, current_client[1], chs, listed)
         IN  IF u.exc # "" THEN [pm |-> u.pm, reply |-> PyNone, exc |-> u.exc]
             ELSE IF u.r = <<>>
             THEN [pm |-> u.pm, exc |-> "",
                   reply |-> array(<<bulk_string(PyStr("unsubscribe")), null_bulk_string, integer(0)>>)]
             ELSE [pm |-> u.pm, reply |-> confirmations("unsubscribe", u.r), exc |-> ""]
publish(pm, socks, channel, message, order) ==
    LET u == PubSubManager_publish(pm, socks, channel, message, order)
    IN  [pm |-> u.pm, socks |-> u.socks, exc |-> u.exc,
         reply |-> IF u.exc = "" THEN integer(u.r) ELSE PyNone]

\* server.py _accept_client: the new socket enters the client table with an
\* empty buffer.
Connected(c) == c \in DOMAIN clients
Accept(c) ==
    /\ running /\ c \notin DOMAIN sockets
    /\ sockets' = Put(sockets, c, [state |-> "open", sent |-> <<>>, read |-> <<>>, dispatched |-> <<>>])
    /\ clients' = Put(clients, c, [buffer |-> <<>>])
    /\ UNCHANGED <<pubsub_manager, published, running, server_socket, simple_server>>

\* The peer resets the connection: later sends on the socket raise.
PeerReset(c) ==
    /\ c \in DOMAIN sockets /\ sockets[c].state = "open"
    /\ sockets' = [sockets EXCEPT ![c].state = "reset"]
    /\ UNCHANGED <<pubsub_manager, clients, published, running, server_socket, simple_server>>

\* server.py _disconnect_client, on EOF or a socket error: the socket is closed
\* and leaves the client table.  The pub/sub manager is not told.
Disconnect(c) ==
    /\ Connected(c)
    /\ sockets' = [sockets EXCEPT ![c].state = "closed"]
    /\ clients' = Drop(clients, c)
    /\ UNCHANGED <<pubsub_manager, published, running, server_socket, simple_server>>

\* command_handler.py execute(command, *args, client=c) for the pub/sub verbs.
SUBSCRIBE(c, chs) ==
    /\ Connected(c)
    /\ pubsub_manager' = subscribe(pubsub_manager, Some(c), chs).pm
    /\ UNCHANGED <<clients, sockets, published, running, server_socket, simple_server>>
UNSUBSCRIBE(c, chs) ==
    /\ Connected(c)
    /\ \E listed \in Orders(Get(pubsub_manager.client_subscriptions, c)) :
          pubsub_manager' = unsubscribe(pubsub_manager, Some(c), chs, listed).pm
    /\ UNCHANGED <<clients, sockets, published, running, server_socket, simple_server>>
PUBLISH(channel) ==
    /\ published < MaxPublishes
    /\ \E order \in Orders(Get(pubsub_manager.channels, channel)) :
          \E u \in {publish(pubsub_manager, sockets, channel, published + 1, order)} :
             /\ pubsub_manager' = u.pm
             /\ sockets' = u.socks
    /\ published' = published + 1
    /\ UNCHANGED <<clients, running, server_socket, simple_server>>

\* PubSubManager.cleanup_client, the clean-up offered to the server.
CleanupClient(c) ==
    /\ c \in DOMAIN sockets
    /\ pubsub_manager' = cleanup_client(pubsub_manager, c).pm
    /\ UNCHANGED <<clients, sockets, published, running, server_socket, simple_server>>

base == <<storage, now, persistence_manager, files, aof_writer, threads>>
ChannelLists == {<<>>} \cup {<<ch>> : ch \in Channels}
                \cup {<<a, b>> : a, b \in Channels}
NextPubSub ==
    \/ \E c \in Clients : Accept(c) /\ UNCHANGED base
    \/ \E c \in Clients : PeerReset(c) /\ UNCHANGED base
    \/ \E c \in Clients : Disconnect(c) /\ UNCHANGED base
    \/ \E c \in Clients : \E chs \in ChannelLists : SUBSCRIBE(c, chs) /\ UNCHANGED base
    \/ \E c \in Clients : \E chs \in ChannelLists : UNSUBSCRIBE(c, chs) /\ UNCHANGED base
    \/ \E channel \in Channels : PUBLISH(channel) /\ UNCHANGED base
    \/ \E c \in Clients : CleanupClient(c) /\ UNCHANGED base
SpecPubSub == Init /\ [][NextPubSub]_vars

\* ----------------------------------------------------- connection loop
\* What a client writes to its connection: letters of command words, carriage
\* returns and line feeds; at most MaxBytes bytes are read in a run.
CR == "CR"
LF == "LF"
Letters == {"a", "b"}
Bytes == Letters \cup {CR, LF}
MaxBytes == 6
Whitespace == {CR, LF, " "}

RECURSIVE SeqsUpTo(_, _)
SeqsUpTo(S, n) == IF n = 0 THEN {<<>>}
                  ELSE LET shorter == SeqsUpTo(S, n - 1)
                       IN  shorter \cup {Append(q, x) : q \in shorter, x \in S}

\* The connection whose input a run follows, and what one recv() may return.
Readers == {"c1"}
Chunks == [n \in 0..MaxBytes |-> SeqsUpTo(Bytes, n) \ {<<>>}]

\* bytes.split(sep, 1) on the two-byte separator CR LF: where the first
\* separator starts, 0 when there is none.
FindCRLF(buffer) ==
    LET at == {i \in 1..(Len(buffer) - 1) : buffer[i] = CR /\ buffer[i + 1] = LF}
    IN  IF at = {} THEN 0 ELSE CHOOSE i \in at : \A j \in at : i <= j

\* str.strip().split(): the maximal runs of non-whitespace characters.
RECURSIVE str_split(_, _, _)
str_split(line, word, parts) ==
    IF line = <<>> THEN (IF word = "" THEN parts ELSE Append(parts, word))
    ELSE IF Head(line) \in Whitespace
         THEN str_split(Tail(line), "", IF word = "" THEN parts ELSE Append(parts, word))
         ELSE str_split(Tail(line), word \o Head(line), parts)

\* server.py _process_command: the words of the line; none is an error reply,
\* otherwise the first is the verb execute() is called with.
process_command(s, command_line, clk) ==
    LET parts == str_split(command_line, "", <<>>)
    IN  IF parts = <<>> THEN H(s, error("empty command"))
        ELSE execute(s, parts[1], Tail(parts), clk)

\* server.py _process_buffer: while the buffer holds a CR LF, what precedes
\* the first one is taken off; when it is not empty it is processed and the
\* reply is sent.  What is left is kept as the client's buffer.  sock.dispatched
\* records the words each call of execute() was given.
RECURSIVE process_buffer(_, _, _, _)
process_buffer(s, sock, buffer, clk) ==
    LET i == FindCRLF(buffer)
    IN  IF i = 0 THEN [s |-> s, sock |-> sock, buffer |-> buffer]
        ELSE LET command == SubSeq(buffer, 1, i - 1)
                 rest == SubSeq(buffer, i + 2, Len(buffer))
             IN  IF command = <<>> THEN process_buffer(s, sock, rest, clk)
                 ELSE Only({process_buffer(r.s,
                               [sock EXCEPT !.sent = Append(@, r.reply),
                                            !.dispatched = Append(@, str_split(command, "", <<>>))],
                               rest, clk) : r \in {process_command(s, command, clk)}})

\* A carriage return is written as the first byte of a CR LF only.
WellFormedStream(bytes) ==
    \A i \in 1..Len(bytes) :
        bytes[i] = CR => (IF i = Len(bytes) THEN TRUE ELSE bytes[i + 1] = LF)
RECURSIVE BytesRead(_)
BytesRead(S) == IF S = {} THEN 0
                ELSE LET c == CHOOSE x \in S : TRUE
                     IN  Len(sockets[c].read) + BytesRead(S \ {c})

\* server.py _handle_client on a readable socket that has data: the bytes
\* read are appended to the client's buffer and the buffer is processed.
Recv(c) ==
    /\ running /\ Connected(c) /\ sockets[c].state = "open"
    /\ BytesRead(DOMAIN sockets) < MaxBytes
    /\ \E data \in Chunks[MaxBytes - BytesRead(DOMAIN sockets)] :
          /\ WellFormedStream(sockets[c].read \o data)
          /\ \E r \in {process_buffer(storage, [sockets[c] EXCEPT !.read = @ \o data],
                                      clients[c].buffer \o data, <<now, now>>)} :
                /\ storage' = r.s
                /\ sockets' = [sockets EXCEPT ![c] = r.sock]
                /\ clients' = [clients EXCEPT ![c].buffer = r.buffer]
    /\ UNCHANGED <<now, persistence_manager, files, aof_writer, threads>>
    /\ UNCHANGED <<pubsub_manager, published, running, server_socket, simple_server>>

NextServer ==
    \/ \E c \in Clients : Accept(c) /\ UNCHANGED base
    \/ \E c \in Readers : Recv(c)
    \/ \E c \in Clients : PeerReset(c) /\ UNCHANGED base
    \/ \E c \in Clients : Disconnect(c) /\ UNCHANGED base
SpecServer == Init /\ [][NextServer]_vars

\* server.py stop(): the loop's flag is cleared, the persistence manager's
\* stop() prints a line, every client is disconnected and the listening
\* socket is closed.  The append-only file writer and the snapshot thread are
\* not touched.
Stop ==
    /\ running
    /\ running' = FALSE
    /\ sockets' = [c \in DOMAIN sockets |->
                      IF Connected(c) THEN [sockets[c] EXCEPT !.state = "closed"]
                      ELSE sockets[c]]
    /\ clients' = <<>>
    /\ server_socket' = "closed"
    /\ UNCHANGED <<storage, now, persistence_manager, files, aof_writer, threads>>
    /\ UNCHANGED <<pubsub_manager, published, simple_server>>

\* The event loop, while its flag is set, with the append-only file enabled;
\* the snapshot thread runs on its own.
NextStop ==
    \/ running /\ \E c \in Clients : Accept(c) /\ UNCHANGED base
    \/ running /\ \E c \in Clients : Disconnect(c) /\ UNCHANGED base
    \/ running /\ SET
    \/ running /\ Tick
    \/ running /\ AofSync
    \/ running /\ BGSAVE
    \/ BgWrite
    \/ BgMove
    \/ Stop
SpecStop == InitAOF /\ [][NextStop]_vars

\* -------------------------------------------- thread-per-connection server
\* simple_tcp_server: what a client of this server writes in one go.
SimpleChunks == {<<"SET", " ", "k", " ", "v", LF>>, <<"GET", " ", "k", CR, LF>>,
                 <<"PING", LF, "PING", LF>>, <<"GET", " ">>, <<"k", LF>>}

\* str.strip().
RECURSIVE lstrip(_)
lstrip(line) == IF line # <<>> /\ Head(line) \in Whitespace THEN lstrip(Tail(line)) ELSE line
strip(line) == Reverse(lstrip(Reverse(lstrip(line))))

\* simple_tcp_server/command_handler.py handle_command, with the storage it
\* works on: SET stores, GET looks up, PING and ECHO answer, anything else is
\* an unknown command.
handle_command(store, command_line) ==
    LET parts == str_split(command_line, "", <<>>)
        command == IF parts = <<>> THEN "" ELSE parts[1]
        args == IF parts = <<>> THEN <<>> ELSE Tail(parts)
    IN  IF parts = <<>> THEN [store |-> store, response |-> error("empty command")]
        ELSE IF command \in {"SET", "set"}
        THEN IF Len(args) < 2
             THEN [store |-> store,
                   response |-> error("wrong number of arguments for 'set' command")]
             ELSE [store |-> Put(store, args[1], Tail(args)), response |-> ok]
        ELSE IF command \in {"GET", "get"}
        THEN IF Len(args) # 1
             THEN [store |-> store,
                   response |-> error("wrong number of arguments for 'get' command")]
             ELSE [store |-> store,
                   response |-> IF args[1] \in DOMAIN store
                                THEN bulk_string(PyStr(store[args[1]]))
                                ELSE null_bulk_string]
        ELSE IF command \in {"PING", "ping"}
        THEN [store |-> store, response |-> simple_string("PONG")]
        ELSE IF command \in {"ECHO", "echo"}
        THEN [store |-> store, response |-> simple_string(args)]
        ELSE [store |-> store, response |-> error("unknown command")]

\* SimpleTCPServer.start up to the accept loop.
SimpleStart ==
    /\ ~simple_server.running /\ simple_server.socket = None
    /\ simple_server' = [simple_server EXCEPT !.running = TRUE, !.socket = Some("listening")]
    /\ UNCHANGED <<pubsub_manager, clients, sockets, published, running, server_socket>>

\* The accept loop: a connection is accepted and a thread of its own is
\* started on _handle_client.
SimpleAccept(c) ==
    /\ simple_server.running /\ c \notin DOMAIN sockets
    /\ sockets' = Put(sockets, c, [state |-> "open", sent |-> <<>>, read |-> <<>>,
                                   dispatched |-> <<>>])
    /\ simple_server' = [simple_server EXCEPT
                            !.threads = Put(@, c, [pc |-> "greet", buffer |-> <<>>,
                                                   command_line |-> <<>>,
                                                   response |-> None])]
    /\ UNCHANGED <<pubsub_manager, clients, published, running, server_socket>>

\* _handle_client, one step of the thread of connection c at a time: the
\* greeting; a recv() appended to the buffer; a line taken off the buffer at
\* the first LF and stripped; the call of handle_command; the send of its
\* response.
OnThread(c, pc) == c \in DOMAIN simple_server.threads /\ simple_server.threads[c].pc = pc
SimpleGreet(c) ==
    /\ OnThread(c, "greet")
    /\ sockets' = send(sockets, c, simple_string("OK Server ready"))
    /\ simple_server' = [simple_server EXCEPT !.threads[c].pc = "recv"]
    /\ UNCHANGED <<pubsub_manager, clients, published, running, server_socket>>
SimpleRecv(c) ==
    /\ OnThread(c, "recv") /\ simple_server.running
    /\ Len(sockets[c].read) < MaxBytes
    /\ \E data \in SimpleChunks :
          /\ sockets' = [sockets EXCEPT ![c].read = @ \o data]
          /\ simple_server' = [simple_server EXCEPT !.threads[c].buffer = @ \o data,
                                                    !.threads[c].pc = "lines"]
    /\ UNCHANGED <<pubsub_manager, clients, published, running, server_socket>>
FindLF(buffer) ==
    LET at == {i \in 1..Len(buffer) : buffer[i] = LF}
    IN  IF at = {} THEN 0 ELSE CHOOSE i \in at : \A j \in at : i <= j
SimpleNextLine(c) ==
    /\ OnThread(c, "lines")
    /\ LET buffer == simple_server.threads[c].buffer
           i == FindLF(buffer)
           command_line == strip(SubSeq(buffer, 1, i - 1))
       IN  simple_server' =
              IF i = 0 THEN [simple_server EXCEPT !.threads[c].pc = "recv"]
              ELSE [simple_server EXCEPT
                       !.threads[c].buffer = SubSeq(buffer, i + 1, Len(buffer)),
                       !.threads[c].command_line = command_line,
                       !.threads[c].pc = IF command_line # <<>> THEN "handle" ELSE "lines"]
    /\ UNCHANGED <<pubsub_manager, clients, sockets, published, running, server_socket>>
SimpleHandle(c) ==
    /\ OnThread(c, "handle")
    /\ \E r \in {handle_command(simple_server.store, simple_server.threads[c].command_line)} :
          simple_server' = [simple_server EXCEPT !.store = r.store,
                                                 !.threads[c].response = Some(r.response),
                                                 !.threads[c].pc = "send"]
    /\ sockets' = [sockets EXCEPT ![c].dispatched =
                      Append(@, str_split(simple_server.threads[c].command_line, "", <<>>))]
    /\ UNCHANGED <<pubsub_manager, clients, published, running, server_socket>>
SimpleSend(c) ==
    /\ OnThread(c, "send")
    /\ sockets' = send(sockets, c, simple_server.threads[c].response[1])
    /\ simple_server' = [simple_server EXCEPT !.threads[c].pc = "lines",
                                              !.threads[c].response = None]
    /\ UNCHANGED <<pubsub_manager, clients, published, running, server_socket>>
\* recv() returns no data: the loop is left, the socket closed, the thread ends.
SimpleEof(c) ==
    /\ OnThread(c, "recv")
    /\ sockets' = [sockets EXCEPT ![c].state = "closed"]
    /\ simple_server' = [simple_server EXCEPT !.threads = Drop(@, c)]
    /\ UNCHANGED <<pubsub_manager, clients, published, running, server_socket>>

NextSimple ==
    \/ SimpleStart /\ UNCHANGED base
    \/ \E c \in Clients : SimpleAccept(c) /\ UNCHANGED base
    \/ \E c \in Clients : SimpleGreet(c) /\ UNCHANGED base
    \/ \E c \in Clients : SimpleRecv(c) /\ UNCHANGED base
    \/ \E c \in Clients : SimpleNextLine(c) /\ UNCHANGED base
    \/ \E c \in Clients : SimpleHandle(c) /\ UNCHANGED base
    \/ \E c \in Clients : SimpleSend(c) /\ UNCHANGED base
    \/ \E c \in Clients : SimpleEof(c) /\ UNCHANGED base
SpecSimple == Init /\ [][NextSimple]_vars

\* ------------------------------------------------- keyspace properties
Stored(k) == k \in DOMAIN storage.data
ExpiredAt(s, k, t) ==
    /\ k \in DOMAIN s.data
    /\ s.data[k].expiry_time # None
    /\ s.data[k].expiry_time[1] <= t
LiveAt(s, k, t) == k \in DOMAIN s.data /\ ~ExpiredAt(s, k, t)
\* n clock reads of a handler during which the clock does not move.
Same(n) == [i \in 1..n |-> now]
IsAggregate(v) == IsDeque(v) \/ IsDict(v) \/ IsSet(v)
IsEmptyAggregate(v) ==
    \/ IsDeque(v) /\ v.deque = <<>>
    \/ IsDict(v) /\ DOMAIN v.dict = {}
    \/ IsSet(v) /\ v.set = {}
None_ == simple_string("none")
InKeysReply(r, k) ==
    /\ r.t = "array"
    /\ \E i \in 1..Len(r.items) : r.items[i] = bulk_string(Str(k))

\* C1: the running memory counter equals the sum, over the stored entries, of
\* len(key) + size(current value) + 64.
C1_MemoryCounterExact == storage.memory_usage = ActualMemory(storage)

\* C2: no stored key holds an empty list, hash or set; a key for which LLEN,
\* HLEN or SCARD replies 0 has TYPE none.
C2_NoEmptyAggregate ==
    /\ \A k \in DOMAIN storage.data : ~IsEmptyAggregate(storage.data[k].value)
    /\ \A k \in Keys :
          \/ llen(storage, <<k>>, Same(2)).reply = integer(0)
          \/ hlen(storage, <<k>>, Same(2)).reply = integer(0)
          \/ scard(storage, <<k>>, Same(2)).reply = integer(0)
          => get_type(storage, <<k>>, Same(1)).reply = None_

\* C3: for every key, TYPE replies none iff GET replies null iff the key is
\* absent from KEYS *, and that exactly when the key is not stored or its
\* expiry is at or before now.
C3_ObservationsAgree ==
    \A k \in Keys :
        LET gone == ~LiveAt(storage, k, now)
        IN /\ (get_type(storage, <<k>>, Same(1)).reply = None_) <=> gone
           /\ (get(storage, <<k>>, Same(1)).reply = null_bulk_string) <=> gone
           /\ ~InKeysReply(keys(storage, <<"*">>, Same(2)).reply, k) <=> gone

\* C4: every keyspace operation that takes a key, applied to an entry whose
\* expiry has passed, removes the entry, decrements the memory counter and the
\* kind counter and reports the key as missing; DEL does not count it.
C4_ExpiredEntryIsMissing ==
    \A k \in Keys :
        ExpiredAt(storage, k, now) =>
            LET gone == RemoveEntry(storage, k)
            IN /\ ds_get(storage, k, now) = Ret(gone, PyNone)
               /\ ds_exists(storage, <<k>>, <<now>>) = Ret(gone, 0)
               /\ ds_expire(storage, k, 1, now, now) = Ret(gone, FALSE)
               /\ ds_expire_at(storage, k, MaxTime + 1, now) = Ret(gone, FALSE)
               /\ ds_ttl(storage, k, now) = Ret(gone, -2)
               /\ ds_pttl(storage, k, now) = Ret(gone, -2)
               /\ ds_persist(storage, k, now) = Ret(gone, FALSE)
               /\ ds_get_type(storage, k, now) = Ret(gone, "none")
               /\ get_or_create_list(storage, k, now) = get_or_create_list(gone, k, now)
               /\ get_or_create_hash(storage, k, now) = get_or_create_hash(gone, k, now)
               /\ get_or_create_set(storage, k, now) = get_or_create_set(gone, k, now)
               /\ ds_delete(storage, <<k>>) = Ret(gone, 0)

\* C5: KEYS pattern completes with exactly the stored, non-expired keys whose
\* name matches the pattern, also when expired entries are still stored.
C5_KeysReturnsLiveMatches ==
    \A pattern \in Patterns :
        LET r == keys(storage, <<pattern>>, Same(2)).reply
        IN /\ r.t = "array"
           /\ \A k \in Keys :
                 InKeysReply(r, k) <=> LiveAt(storage, k, now) /\ fnmatch(k, pattern)
           /\ Len(r.items) = Cardinality({k \in Keys : InKeysReply(r, k)})

\* C6: for each kind the per-kind counter equals the number of stored entries
\* of that kind; the counters are never negative and sum to the number of
\* stored entries.
StoredOfKind(kind) == {k \in DOMAIN storage.data : storage.data[k].type = kind}
C6_KindCounters ==
    /\ \A kind \in Kinds :
          /\ storage.type_stats[kind] = Cardinality(StoredOfKind(kind))
          /\ storage.type_stats[kind] >= 0
    /\ storage.type_stats["string"] + storage.type_stats["list"]
         + storage.type_stats["set"] + storage.type_stats["hash"]
       = Cardinality(DOMAIN storage.data)
    /\ \A k \in DOMAIN storage.data :
          storage.data[k].type = get_data_type(storage.data[k].value)
\* A stored list beside an entry of another kind whose expiry has passed and
\* which no access has reclaimed yet.
C6_Witness ==
    /\ storage.type_stats["list"] = 1
    /\ \E k \in DOMAIN storage.data :
          storage.data[k].type # "list" /\ ExpiredAt(storage, k, now)

\* C8: GET on a live key holding a list, hash or set replies with an error,
\* never with the aggregate.
C8_GetOnAggregateFails ==
    \A k \in Keys :
        LiveAt(storage, k, now) /\ IsAggregate(storage.data[k].value) =>
            get(storage, <<k>>, Same(1)).reply.t = "error"

\* ------------------------------------------------- kind-specific commands
ListVerbs == {"LPUSH", "RPUSH", "LPOP", "RPOP", "LRANGE", "LLEN", "LINDEX", "LSET"}
HashVerbs == {"HSET", "HMSET", "HGET", "HMGET", "HGETALL", "HDEL", "HEXISTS", "HLEN"}
SetVerbs == {"SADD", "SREM", "SMEMBERS", "SISMEMBER", "SCARD",
             "SINTER", "SUNION", "SDIFF", "SINTERSTORE"}
KindOf(verb) == IF verb \in ListVerbs THEN "list"
                ELSE IF verb \in HashVerbs THEN "hash" ELSE "set"
\* The argument lists each verb is issued with.
ArgsOf(verb) ==
    CASE verb \in {"LPUSH", "RPUSH"} -> PushArgs
      [] verb \in {"LPOP", "RPOP", "LLEN", "HGETALL", "HLEN"} -> {<<KeyA>>, <<>>}
      [] verb = "LRANGE" -> LrangeArgs
      [] verb = "LINDEX" -> IndexArgs
      [] verb = "LSET" -> LsetArgs
      [] verb = "HSET" -> HsetArgs
      [] verb = "HMSET" -> HmsetArgs
      [] verb \in {"HGET", "HEXISTS"} -> FieldArgs
      [] verb \in {"HMGET", "HDEL"} -> FieldsArgs
      [] verb = "SADD" -> MembersArgs
      [] verb = "SREM" -> RemoveArgs
      [] verb \in {"SMEMBERS", "SCARD"} -> OneKey \cup {<<>>}
      [] verb = "SISMEMBER" -> MemberArgs
      [] verb \in {"SINTER", "SUNION", "SDIFF"} -> SetKeySeqs \cup {<<>>}
      [] verb = "SINTERSTORE" -> StoreArgs
\* The arguments pass the handler's own validation: count and integer indexes.
WellFormed(verb, args) ==
    LET n == Len(args)
    IN CASE verb \in {"LPOP", "RPOP", "LLEN", "HGETALL", "HLEN", "SMEMBERS", "SCARD"}
              -> n = 1
         [] verb \in {"HGET", "HEXISTS", "SISMEMBER"} -> n = 2
         [] verb = "LINDEX" -> n = 2 /\ args[2] \in IntTokens
         [] verb = "LSET" -> n = 3 /\ args[2] \in IntTokens
         [] verb = "LRANGE" -> n = 3 /\ args[2] \in IntTokens /\ args[3] \in IntTokens
         [] verb \in {"LPUSH", "RPUSH", "HMGET", "HDEL", "SADD", "SREM", "SINTERSTORE"}
              -> n >= 2
         [] verb \in {"HSET", "HMSET"} -> n >= 3 /\ n % 2 = 1
         [] verb \in {"SINTER", "SUNION", "SDIFF"} -> n >= 1
\* The keys the command reads values from, in the order it reads them.
SourceKeys(verb, args) ==
    IF verb \in {"SINTER", "SUNION", "SDIFF"} THEN args
    ELSE IF verb = "SINTERSTORE" THEN Tail(args)
    ELSE <<args[1]>>
\* Clock reads of the handler: one per validity check it or the accessor makes.
ReadsOf(verb, args) ==
    IF verb \in {"LPUSH", "RPUSH", "HSET", "HMSET", "SADD"} THEN 1
    ELSE 2 * Len(SourceKeys(verb, args))
\* The command gets as far as its i-th source key: an intersection stops at
\* the first key that is not live, a difference when its first key is not.
Reached(verb, ks, i, t) ==
    IF verb \in {"SINTER", "SINTERSTORE"}
    THEN \A j \in 1..(i - 1) : LiveAt(storage, ks[j], t)
    ELSE IF verb = "SDIFF" THEN i = 1 \/ LiveAt(storage, ks[1], t)
    ELSE TRUE
\* A well-formed command reads a key that is live, through all of its clock
\* reads, and of another kind; no key it looks at expires while it runs.
ReadsWrongKind(verb, args, clk) ==
    /\ WellFormed(verb, args)
    /\ LET ks == SourceKeys(verb, args)
           t == clk[Len(clk)]
       IN /\ \E i \in 1..Len(ks) :
                 /\ LiveAt(storage, ks[i], t)
                 /\ storage.data[ks[i]].type # KindOf(verb)
                 /\ Reached(verb, ks, i, t)
          /\ \A i \in 1..Len(ks) :
                 ExpiredAt(storage, ks[i], t) => ExpiredAt(storage, ks[i], clk[1])
RECURSIVE Reclaimed(_, _)
Reclaimed(s, R) ==
    IF R = {} THEN s
    ELSE LET k == CHOOSE k \in R : TRUE IN Reclaimed(RemoveEntry(s, k), R \ {k})
ExpiredSources(verb, args) ==
    LET ks == SourceKeys(verb, args)
    IN {ks[i] : i \in {j \in 1..Len(ks) : ExpiredAt(storage, ks[j], now)}}

\* C7 (as stated): a list, hash or set command that reads a live key of
\* another kind replies WRONGTYPE and leaves every entry, every expiry, the
\* memory counter and the kind counters unchanged.
C7_WrongTypeLeavesAllUnchanged ==
    \A verb \in ListVerbs \cup HashVerbs \cup SetVerbs :
        \A args \in ArgsOf(verb) :
            ReadsWrongKind(verb, args, Same(ReadsOf(verb, args))) =>
                LET r == execute(storage, verb, args, Same(ReadsOf(verb, args)))
                IN r.reply = error(WRONGTYPE) /\ r.s = storage

\* C7 (amended): such a command replies WRONGTYPE and leaves every live entry,
\* its expiry and its share of the counters unchanged; the only entries it
\* may remove, with their counters, are expired ones among the keys it reads.
C7_WrongTypeKeepsLiveEntries ==
    \A verb \in ListVerbs \cup HashVerbs \cup SetVerbs :
        \A args \in ArgsOf(verb) :
            \A clk \in ClockReads(IF WellFormed(verb, args)
                                  THEN ReadsOf(verb, args) ELSE 1) :
                ReadsWrongKind(verb, args, clk) =>
                    LET r == execute(storage, verb, args, clk)
                    IN /\ r.reply = error(WRONGTYPE)
                       /\ \E R \in SUBSET ExpiredSources(verb, args) :
                             r.s = Reclaimed(storage, R)
\* SUNION reads an expired, unreclaimed key and then a live key that is not a
\* set: it replies WRONGTYPE and the expired key is gone.
C7_Witness ==
    \E args \in SetKeySeqs :
        /\ ReadsWrongKind("SUNION", args, Same(ReadsOf("SUNION", args)))
        /\ LET r == execute(storage, "SUNION", args, Same(ReadsOf("SUNION", args)))
           IN r.reply = error(WRONGTYPE) /\ r.s # storage

\* ---------------------------------------------------- persistence properties
NonVolatile(s, k) == k \in DOMAIN s.data /\ s.data[k].expiry_time = None
SameEntry(s1, s2, k) ==
    /\ k \in DOMAIN s1.data /\ k \in DOMAIN s2.data
    /\ s1.data[k].type = s2.data[k].type
    /\ s1.data[k].value = s2.data[k].value

\* C9: replaying the append-only file on a fresh keyspace gives every key
\* that is stored without an expiry the same existence, kind and value as in
\* the keyspace the logged commands built.
C9_ReplayRestoresNonVolatileKeys ==
    files.aof # None =>
        LET replayed == replay_aof(DataStoreInit, files.aof[1], now).s
        IN \A k \in Keys : NonVolatile(storage, k) => SameEntry(replayed, storage, k)

\* C10: after a successful SAVE, then FLUSHALL, then DEBUG RELOAD, the keyspace
\* holds exactly the keys stored at SAVE time that have not expired by reload
\* time, each with the kind and value it had at SAVE time.
C10_SaveFlushReloadRestoresLiveKeys ==
    persistence_manager # None =>
        \A clk \in ClockReads(SaveReads(storage)) :
            LET saved == save(persistence_manager, files, storage, <<>>, clk)
            IN saved.reply = ok =>
                 \A t \in clk[Len(clk)]..MaxTime :
                     LET flushed == flushall(saved.s, <<>>, <<t>>)
                         reloaded == debug_command(saved.pm, saved.fs, flushed.s,
                                                   <<"RELOAD">>, <<t>>)
                     IN /\ reloaded.reply = ok
                        /\ \A k \in Keys :
                              k \in DOMAIN reloaded.s.data
                                <=> k \in DOMAIN storage.data /\ ~ExpiredAt(storage, k, t)
                        /\ \A k \in DOMAIN reloaded.s.data :
                              SameEntry(reloaded.s, storage, k)

\* ------------------------------------------------- logging of write commands
\* The command lines and the clock reads each write-set verb is issued with.
IssuedArgs(verb) ==
    CASE verb = "SET" -> SetArgs
      [] verb = "DEL" -> KeySeqs \cup {<<>>}
      [] verb = "EXPIRE" -> ExpireArgs
      [] verb = "EXPIREAT" -> ExpireAtArgs
      [] verb = "PERSIST" -> OneKey \cup {<<>>}
      [] verb = "FLUSHALL" -> {<<>>}
      [] verb \in {"GET", "TTL", "PTTL", "TYPE"} -> OneKey \cup {<<>>}
      [] verb = "EXISTS" -> ExistsArgs
      [] verb = "KEYS" -> KeysArgs
      [] OTHER -> ArgsOf(verb)
IssuedReads(verb, args) ==
    CASE verb \in {"SET", "DEL", "FLUSHALL", "PERSIST", "LPUSH", "RPUSH",
                   "HSET", "HMSET", "SADD"} -> 1
      [] verb = "SINTERSTORE" -> Reads(Tail(args))
      [] OTHER -> 2
\* What execute() hands to the persistence layer once the handler has
\* returned, and the persistence state when nothing was handed over.
Logged(verb, args, t) ==
    log_executed(persistence_manager, aof_writer, files, verb, args, t)
NothingLogged == [pm |-> persistence_manager, w |-> aof_writer, fs |-> files]
IsErrorReply(r) == r.exc = "" /\ r.reply.t = "error"

\* C11: a write-set command whose reply is an error is never logged and never
\* counted as a change: the change counter, the writer and the append-only
\* file are as they were before the command.
C11_ErrorReplyNotLogged ==
    persistence_manager # None =>
        \A verb \in WriteCommands : \A args \in IssuedArgs(verb) :
            \A clk \in ClockReads(IssuedReads(verb, args)) :
                IsErrorReply(execute(storage, verb, args, clk))
                    => Logged(verb, args, clk[Len(clk)]) = NothingLogged

\* C12: every successful execution of a write-set verb is recorded exactly
\* once, as one record of the append-only file and one counted change, and no
\* verb outside the write set is recorded.
WriteSet == {"SET", "DEL", "EXPIRE", "EXPIREAT", "PERSIST", "FLUSHALL",
             "LPUSH", "RPUSH", "LPOP", "RPOP", "LSET", "HSET", "HMSET", "HDEL",
             "SADD", "SREM", "SINTERSTORE", "PUBLISH"}
IsSuccess(r) == r.exc = "" /\ r.reply.t # "error"
RecordedOnce(p) ==
    /\ p.pm[1].changes_since_save = persistence_manager[1].changes_since_save + 1
    /\ Len(p.fs.aof[1]) = Len(files.aof[1]) + 1
C12_WriteSetRecordedOnce ==
    (persistence_manager # None /\ aof_writer # None) =>
        \A verb \in Registry : \A args \in IssuedArgs(verb) :
            IF verb \in WriteSet
            THEN \A clk \in ClockReads(IssuedReads(verb, args)) :
                    IsSuccess(execute(storage, verb, args, clk))
                        => RecordedOnce(Logged(verb, args, clk[Len(clk)]))
            ELSE Logged(verb, args, now) = NothingLogged

\* C13: under the sync policy 'always', when a successful write command has
\* been replied to, no write is pending and its record is flushed and fsynced,
\* so that recovery after a crash at any later time yields the key it wrote.
\* A crash keeps of the append-only file what was fsynced.
Crashed(fs) == [fs EXCEPT !.aof = Some(SubSeq(@[1], 1, fs.aof_synced))]
KeyWritingVerbs == {"SET", "LPUSH", "RPUSH", "HSET", "HMSET", "SADD"}
C13_AlwaysPolicyIsDurable ==
    (persistence_manager # None /\ aof_writer # None
        /\ aof_writer[1].sync_policy = "always") =>
        \A verb \in KeyWritingVerbs : \A args \in IssuedArgs(verb) :
            \A clk \in ClockReads(IssuedReads(verb, args)) :
                LET r == execute(storage, verb, args, clk)
                    p == Logged(verb, args, clk[Len(clk)])
                IN IsSuccess(r) =>
                    /\ p.w[1].pending_writes = 0
                    /\ p.fs.aof_synced = Len(p.fs.aof[1])
                    /\ \A t \in clk[Len(clk)]..MaxTime :
                          NonVolatile(r.s, args[1]) =>
                              args[1] \in DOMAIN
                                  recover_data(Crashed(p.fs), DataStoreInit, t).s.data

\* C19: when a write or fsync of the append-only file has failed, the next
\* write command is replied to with an error.  Under the policy 'always' a
\* pending write is what a failed flush or fsync leaves behind.
SyncFailed ==
    /\ aof_writer # None
    /\ aof_writer[1].sync_policy = "always"
    /\ aof_writer[1].pending_writes > 0
Complete(file) == IF file = None THEN TRUE ELSE deserialize_data(file[1]).exc = ""
LockFree == IF bgsave = None THEN TRUE ELSE bgsave[1].pc # "written"
WorkerFails ==
    /\ bgsave # None /\ bgsave' # None
    /\ bgsave[1].pc \in {"started", "written"} /\ bgsave'[1].pc = "failed"

\* C14: the file at the snapshot path is at every instant absent or a complete
\* snapshot, it is only ever replaced by the fully written temporary file, and
\* a save that fails (SAVE on a device that rejects writes, a snapshot thread
\* that ends in failure) leaves the snapshot file as it was, leaves no
\* temporary file and, for SAVE, is replied to with an error.
C14_Step ==
    /\ Complete(files.rdb) /\ Complete(files.rdb')
    /\ LockFree => files.rdb_tmp = None
    /\ files.rdb' # files.rdb =>
          /\ \/ files.rdb_tmp = None
             \/ files.rdb' = files.rdb_tmp
          /\ files.rdb_writes' = files.rdb_writes + 1
    /\ WorkerFails => files.rdb' = files.rdb /\ files.rdb_tmp' = None
    /\ LockFree =>
          \A clk \in ClockReads(SaveReads(storage)) :
              LET c == save(persistence_manager, files, storage, <<>>, clk)
              IN IF c.reply = ok
                 THEN ~files.faulty /\ c.fs.rdb # None /\ Complete(c.fs.rdb)
                 ELSE c.fs.rdb = files.rdb /\ c.fs.rdb_tmp = None
C14_SnapshotReplacedAtomically == [][C14_Step]_vars
\* A snapshot thread has failed on a device that rejects writes while an
\* earlier snapshot exists.
C14_Witness ==
    /\ bgsave # None /\ bgsave[1].pc = "failed" /\ bgsave[1].data_store
    /\ files.faulty /\ files.rdb # None /\ files.rdb_tmp = None

\* C15: the data a background save writes is the keyspace as it was when the
\* save was issued: the keys that were live then, with the values they had.
Written(file) == {<<file.payload[i].key, file.payload[i].value>> :
                     i \in 1..Len(file.payload)}
AtIssue(w) == {<<k, w.at_issue.data[k].value>> :
                  k \in {x \in DOMAIN w.at_issue.data :
                             LiveAt(w.at_issue, x, w.issued_at)}}
C15_BgsaveWritesKeyspaceAtIssue ==
    IF bgsave = None THEN TRUE
    ELSE (bgsave[1].pc = "written" /\ bgsave[1].data_store)
            => Written(files.rdb_tmp[1]) = AtIssue(bgsave[1])

\* C16: a step of the background snapshot thread leaves the live keyspace as
\* it is: no entry is removed and the memory and kind counters keep their
\* values.
WorkerStep ==
    /\ bgsave # None /\ bgsave' # None
    /\ bgsave[1].pc \in {"started", "written"}
    /\ bgsave'[1].pc # bgsave[1].pc
C16_WorkerLeavesKeyspace == [][WorkerStep => storage' = storage]_vars

\* C18: the change counter goes back to 0 only in a step that wrote a
\* snapshot.
C18_CounterResetOnlyOnSnapshot ==
    [][(/\ persistence_manager # None /\ persistence_manager' # None
        /\ persistence_manager[1].changes_since_save > 0
        /\ persistence_manager'[1].changes_since_save = 0)
          => files.rdb_writes' = files.rdb_writes + 1]_vars

\* C17: once a rewrite has moved the temporary file over the append-only
\* file and reopened the writer, replaying the file gives every key that is
\* stored without an expiry, whether it was written before, during or after
\* the rewrite, with its kind and value.
RewriteDone == IF rewrite = None THEN FALSE ELSE rewrite[1].pc = "done"
C20_RecoveryPriority ==
    LET recovered == recover_data(files, DataStoreInit, now)
    IN IF files.aof # None /\ persistence_manager[1].aof_enabled
       THEN recovered = replay_aof(DataStoreInit, files.aof[1], now)
       ELSE IF files.rdb # None
       THEN recovered = load_from_rdb(files, DataStoreInit, now)
       ELSE recovered = Ret(DataStoreInit, TRUE)

\* ------------------------------------------------------------- expiry
\* -------------------------------------------------- pub/sub properties
Subscribers(ch) == Get(pubsub_manager.channels, ch)
ChannelsOf(c) == Get(pubsub_manager.client_subscriptions, c)

\* C21: after any sequence of subscribe, unsubscribe, publish and client
\* clean-up the two subscription maps mirror each other: a client is among a
\* channel's subscribers exactly when the channel is among the client's
\* channels.
C21_MapsMirror ==
    \A c \in Clients : \A ch \in Channels : c \in Subscribers(ch) <=> ch \in ChannelsOf(c)

\* C22: a client whose connection the server has ended (closed socket, out of
\* the client table) is in no channel's subscriber set and has no channel of
\* its own left, so that no command sees it on one side only and PUBLISH has
\* no reason to send to it.
Disconnected(c) == c \in DOMAIN sockets /\ sockets[c].state = "closed"
C22_DisconnectDropsSubscriptions ==
    \A c \in Clients :
        Disconnected(c) => /\ \A ch \in Channels : c \notin Subscribers(ch)
                           /\ ChannelsOf(c) = {}

\* C23: PUBLISH channel message, in whatever order the subscribers are
\* served, replies with the number of subscribers the send to which succeeded;
\* every subscriber whose send raised is gone from all its channels in both
\* maps, and every other subscriber of the channel has received the message.
Message(channel, message) ==
    array(<<bulk_string(PyStr("message")), bulk_string(PyStr(channel)),
            bulk_string(PyStr(message))>>)
C23_PublishCountsDeliveries ==
    \A ch \in Channels : \A order \in Orders(Subscribers(ch)) :
        LET u == publish(pubsub_manager, sockets, ch, published + 1, order)
            reached == {c \in Subscribers(ch) : CanSend(sockets, c)}
        IN  /\ u.exc = ""
            /\ u.reply = integer(Cardinality(reached))
            /\ \A c \in Subscribers(ch) \ reached : \A x \in Channels :
                   /\ c \notin Get(u.pm.channels, x)
                   /\ x \notin Get(u.pm.client_subscriptions, c)
            /\ \A c \in reached :
                   u.socks[c].sent = Append(sockets[c].sent, Message(ch, published + 1))

\* What a socket was sent: the channel and the publish number of a message.
ChannelOf(m) == m.items[2].value.str
NumberOf(m) == m.items[3].value.str
InPublishOrder ==
    \A c \in DOMAIN sockets :
        \A i, j \in 1..Len(sockets[c].sent) :
            (i < j /\ ChannelOf(sockets[c].sent[i]) = ChannelOf(sockets[c].sent[j]))
               => NumberOf(sockets[c].sent[i]) < NumberOf(sockets[c].sent[j])

\* C24: every PUBLISH on a channel sends its message, as the latest item, to
\* every client then subscribed to the channel on a socket that takes it, so
\* that a client subscribed during two publishes is sent the first before the
\* second; and no socket is ever sent two messages of one channel in an order
\* other than that of their publishes.
C24_Step ==
    /\ \A ch \in Channels :
          PUBLISH(ch) =>
             \A c \in Subscribers(ch) :
                CanSend(sockets, c) =>
                   sockets'[c].sent = Append(sockets[c].sent, Message(ch, published + 1))
    /\ InPublishOrder'
C24_PerChannelFifo == [][C24_Step]_vars
\* The order of what was sent, taken alone.
C24_OrderOnly == [][InPublishOrder']_vars

\* ---------------------------------------------- connection properties
\* The lines of a byte stream as the protocol defines them: each ends with
\* CR LF or with a bare LF; what follows the last terminator is the fragment
\* still to be completed.
RECURSIVE SplitLines(_, _, _)
SplitLines(bytes, line, complete) ==
    IF bytes = <<>> THEN [complete |-> complete, fragment |-> line]
    ELSE IF Head(bytes) = LF
         THEN SplitLines(Tail(bytes), <<>>,
                         Append(complete,
                                IF line # <<>> /\ line[Len(line)] = CR
                                THEN SubSeq(line, 1, Len(line) - 1) ELSE line))
         ELSE SplitLines(Tail(bytes), Append(line, Head(bytes)), complete)
CommandLines(c) ==
    SelectSeq(SplitLines(sockets[c].read, <<>>, <<>>).complete, LAMBDA l : l # <<>>)
Fragment(c) == SplitLines(sockets[c].read, <<>>, <<>>).fragment
InArrivalOrder(c) ==
    LET lines == CommandLines(c)
    IN  /\ sockets[c].dispatched = [i \in 1..Len(lines) |-> str_split(lines[i], "", <<>>)]
        /\ sockets[c].sent =
              [i \in 1..Len(lines) |-> process_command(storage, lines[i], <<now, now>>).reply]
OnlyCrlf(bytes) ==
    \A i \in 1..Len(bytes) : bytes[i] = LF => (IF i = 1 THEN FALSE ELSE bytes[i - 1] = CR)

\* C25: on every connection the commands dispatched so far are the non-empty
\* lines read so far, in the order of their arrival, and the replies written
\* are theirs, one per line in the same order, however the bytes were cut
\* into reads.
C25_DispatchedInArrivalOrder == \A c \in DOMAIN sockets : InArrivalOrder(c)
\* The same, for the connections that end every line with CR LF.
C25_OnCrlfStreams ==
    \A c \in DOMAIN sockets : OnlyCrlf(sockets[c].read) => InArrivalOrder(c)

\* C26: at most one command handler runs at a time: no connection's command
\* is being handled while another connection's handler has not returned.
InHandler(c) == OnThread(c, "handle")
C26_OneHandlerAtATime == Cardinality({c \in Clients : InHandler(c)}) <= 1

Count(seq, x) == Cardinality({i \in 1..Len(seq) : seq[i] = x})
\* C27: every complete command line read on a connection, ended by CR LF or
\* by a bare LF, has been dispatched exactly once, and the incomplete fragment
\* after the last terminator is what the client's buffer holds.
C27_CompleteLinesDispatchedOnce ==
    \A c \in DOMAIN sockets :
        LET lines == CommandLines(c)
            words == [i \in 1..Len(lines) |-> str_split(lines[i], "", <<>>)]
        IN  /\ Len(sockets[c].dispatched) = Len(lines)
            /\ \A i \in 1..Len(lines) :
                   Count(sockets[c].dispatched, words[i]) = Count(words, words[i])
            /\ Connected(c) => clients[c].buffer = Fragment(c)
\* The same, for the connections that end every line with CR LF.
C27_OnCrlfStreams ==
    \A c \in DOMAIN sockets :
        OnlyCrlf(sockets[c].read) =>
           /\ sockets[c].dispatched =
                 [i \in 1..Len(CommandLines(c)) |-> str_split(CommandLines(c)[i], "", <<>>)]
           /\ Connected(c) => clients[c].buffer = Fragment(c)

\* C28: once stop() has run, every client socket and the listening socket are
\* closed, the client table is empty, every line of the append-only file has
\* been synced and no snapshot thread is still at work.
AofSynced ==
    aof_writer # None =>
        /\ aof_writer[1].pending_writes = 0
        /\ files.aof # None => files.aof_synced = Len(files.aof[1])
C28_ShutdownReleasesEverything ==
    ~running =>
        /\ server_socket = "closed"
        /\ clients = <<>>
        /\ \A c \in DOMAIN sockets : sockets[c].state = "closed"
        /\ AofSynced
        /\ WorkerIdle
\* What stop() does see to: the sockets and the client table.
C28_SocketsClosed ==
    ~running =>
        /\ server_socket = "closed"
        /\ clients = <<>>
        /\ \A c \in DOMAIN sockets : sockets[c].state = "closed"

HasExpiry(s, k) == k \in DOMAIN s.data /\ s.data[k].expiry_time # None

\* C29: PERSIST key replies 1 exactly when the key is live and has an expiry,
\* and then the expiry is cleared; on a live key without expiry it replies 0
\* and the keyspace is as before.
C29_PersistTellsWhetherExpiryExisted ==
    \A k \in Keys :
        LET r == persist(storage, <<k>>, Same(1))
        IN /\ r.reply = integer(1) <=> (LiveAt(storage, k, now) /\ HasExpiry(storage, k))
           /\ r.reply = integer(1) => ~HasExpiry(r.s, k)
           /\ (LiveAt(storage, k, now) /\ ~HasExpiry(storage, k))
                 => (r.reply = integer(0) /\ r.s = storage)

\* C30: EXPIRE key n with n <= 0 and EXPIREAT key t with t not after the
\* clock reply 0 and leave the keyspace as it is: no key deleted, no expiry
\* set, an expiry the key has is kept.
C30_NotAppliedLeavesKeyspace ==
    \A k \in Keys : \A tok \in IntTokens : \A clk \in ClockReads(2) :
        /\ int(tok) <= 0 => expire(storage, <<k, tok>>, clk) = H(storage, integer(0))
        /\ int(tok) * TicksPerSec <= clk[1]
              => expireat(storage, <<k, tok>>, clk) = H(storage, integer(0))
\* A live key with an expiry, at a time when EXPIREAT key 1 names the past;
\* EXPIRE key 0 and EXPIREAT key 1 are both replied to with 0.
C30_Witness ==
    /\ LiveAt(storage, KeyA, now) /\ HasExpiry(storage, KeyA)
    /\ now >= TicksPerSec
    /\ expire(storage, <<KeyA, "0">>, Same(2)).reply = integer(0)
    /\ expireat(storage, <<KeyA, "1">>, Same(2)).reply = integer(0)

\* The three cases of a remaining time: -2 for no live key, -1 for a live key
\* without expiry, otherwise a count that is not negative; and the agreement
\* of the seconds with the milliseconds.
HasNoExpiry(s, k) == k \in DOMAIN s.data /\ s.data[k].expiry_time = None
Agree(seconds, millis, s, k, t) ==
    IF ~LiveAt(s, k, t) THEN seconds = -2 /\ millis = -2
    ELSE IF HasNoExpiry(s, k) THEN seconds = -1 /\ millis = -1
    ELSE /\ seconds >= 0 /\ millis >= 0
         /\ millis - seconds * 1000 < 1000
         /\ seconds * 1000 - millis < 1000

\* C31: for every key, in every reachable state, TTL replies -2 when the key
\* is absent or expired, -1 when it is live without expiry and otherwise a
\* whole number of seconds that is not negative; PTTL in the same state is in
\* the same case, and its milliseconds are less than 1000 away from the
\* seconds of TTL times 1000.
C31_TtlAndPttlAgree ==
    \A k \in Keys :
        LET r == ttl(storage, <<k>>, Same(1)).reply
            p == pttl(storage, <<k>>, Same(1)).reply
        IN  /\ r.t = "integer" /\ p.t = "integer"
            /\ Agree(r.n, p.n, storage, k, now)
\* The same of DataStore.ttl and DataStore.pttl, below the command handlers.
C31_InTheDataStore ==
    \A k \in Keys :
        Agree(ds_ttl(storage, k, now).r, ds_pttl(storage, k, now).r, storage, k, now)


\* The kind counters' distance from the number of stored keys of each kind.
KindDrift(s) ==
    [kind \in Kinds |->
        s.type_stats[kind] - Cardinality({k \in DOMAIN s.data : s.data[k].type = kind})]
\* SINTERSTORE looks at its i-th source at the clock reads 2i-1 and 2i.  Its
\* sources are sets or missing: no source that is live at the handler's last
\* look holds another kind of value.
SourcesAreSets(s, ks, clk) ==
    \A i \in 1..Len(ks) : LiveAt(s, ks[i], clk[2 * i]) => s.data[ks[i]].type = "set"
SomeSourceMissing(s, ks, clk) == \E i \in 1..Len(ks) : ~LiveAt(s, ks[i], clk[2 * i])
Intersection(s, ks, clk) ==
    IF SomeSourceMissing(s, ks, clk) THEN {}
    ELSE {m \in Elems : \A i \in 1..Len(ks) : m \in s.data[ks[i]].value.set}
SinterstoreAsSpecified(s, dest, ks, clk) ==
    LET h == sinterstore(s, <<dest>> \o ks, clk)
        result == Intersection(s, ks, clk)
    IN /\ h.exc = ""
       /\ h.reply = integer(Cardinality(result))
       /\ IF result = {}
          THEN dest \notin DOMAIN h.s.data
          ELSE /\ dest \in DOMAIN h.s.data
               /\ h.s.data[dest] = [value |-> PySet(result), type |-> "set",
                                    expiry_time |-> None]
       /\ Drift(h.s) = Drift(s)
       /\ KindDrift(h.s) = KindDrift(s)
\* C32: SINTERSTORE dest k1..kn over sources that are sets or missing stores
\* the intersection of the sources in dest, as a set without expiry, and
\* replies its cardinality; with a missing source or an empty intersection
\* dest is gone afterwards, whatever it held, and the reply is 0; the memory
\* counter and the kind counters move by what the replacement or the
\* deletion (and the removal of expired sources on the way) amounts to.
C32_SinterstoreStoresIntersection ==
    \A dest \in Keys : \A ks \in SetKeySeqs : \A clk \in ClockReads(Reads(ks)) :
        SourcesAreSets(storage, ks, clk)
            => SinterstoreAsSpecified(storage, dest, ks, clk)
\* dest holds a value that is not a set and the source is a live set:
\* SINTERSTORE replaces it.
C32_Witness ==
    /\ Stored(KeyB) /\ storage.data[KeyB].type \in {"string", "list", "hash"}
    /\ LiveAt(storage, KeyA, now) /\ storage.data[KeyA].type = "set"
    /\ sinterstore(storage, <<KeyB, KeyA>>, Same(2)).s.data[KeyB].type = "set"


\* What one sweep over the sample `sample_keys` at time t is to do to store s.
SweepAsSpecified(s, sample_keys, t) ==
    LET r == cleanup_expired_keys(s, sample_keys, t)
        due == {k \in sample_keys : ExpiredAt(s, k, t)}
    IN /\ Cardinality(sample_keys) <= 20
       /\ r.exc = "" /\ r.r = Cardinality(due)
       /\ DOMAIN r.s.data = DOMAIN s.data \ due
       /\ \A k \in DOMAIN r.s.data : r.s.data[k] = s.data[k]
       /\ Drift(r.s) = Drift(s)
       /\ KindDrift(r.s) = KindDrift(s)
       /\ Cardinality(DOMAIN s.data) <= 20
              => \A k \in DOMAIN r.s.data : ~ExpiredAt(r.s, k, t)
\* C33: one sampled-expiration tick examines at most 20 stored keys and
\* removes exactly the examined keys whose expiry is at or before now, taking
\* each out of the memory and kind counters; every other entry, with no
\* expiry or a later one, stays as it was, and with at most 20 keys stored no
\* expired key is left after the tick.
C33_TickRemovesSampledExpired ==
    \A sample_keys \in Samples(storage) : SweepAsSpecified(storage, sample_keys, now)
\* A tick over 21 keys, two of them due, has sampled one of the two and left
\* the other outside its sample: 20 keys are stored, one of them expired and
\* one with a later expiry.
C33_Witness ==
    /\ Cardinality(DOMAIN storage.data) = SampleSize
    /\ \E k \in DOMAIN storage.data : storage.data[k].expiry_time = Some(now)
    /\ \E k \in DOMAIN storage.data :
          storage.data[k].expiry_time # None /\ ~ExpiredAt(storage, k, now)


InPlaceVerbs == {"LPUSH", "RPUSH", "LSET", "LPOP", "RPOP",
                 "HSET", "HMSET", "HDEL", "SADD", "SREM"}
\* A list, hash or set command on a key that holds a live value of its kind
\* and still holds one afterwards leaves the key's expiry as it was.
InPlaceKeepsExpiry(verb, args, clk) ==
    LET h == execute(storage, verb, args, clk)
        key == args[1]
    IN (/\ LiveAt(storage, key, clk[Len(clk)])
        /\ storage.data[key].type = KindOf(verb)
        /\ key \in DOMAIN h.s.data)
       => h.s.data[key].expiry_time = storage.data[key].expiry_time
\* SET that replies OK leaves the key with an expiry when it was given EX
\* and without one otherwise; SINTERSTORE that replies a count above 0
\* leaves dest without expiry.
ReplacesExpiry(verb, args, clk) ==
    LET h == execute(storage, verb, args, clk)
        key == args[1]
    IN IF verb = "SET"
       THEN h.reply = ok
            => /\ key \in DOMAIN h.s.data
               /\ (h.s.data[key].expiry_time # None)
                    <=> (Len(args) >= 4 /\ args[Len(args) - 1] = "EX")
       ELSE (h.exc = "" /\ h.reply.t = "integer" /\ h.reply.n > 0)
            => /\ key \in DOMAIN h.s.data
               /\ h.s.data[key].expiry_time = None
\* C34: LPUSH, RPUSH, LSET, HSET, HMSET, SADD and the LPOP, RPOP, HDEL, SREM
\* that leave the key stored, on a live list, hash or set, never change the
\* key's expiry; SET and SINTERSTORE replace the entry and leave it without
\* expiry, unless SET carries EX.
C34_InPlaceMutationKeepsExpiry ==
    /\ \A verb \in InPlaceVerbs : \A args \in IssuedArgs(verb) :
          \A clk \in ClockReads(IssuedReads(verb, args)) :
              Len(args) >= 1 => InPlaceKeepsExpiry(verb, args, clk)
    /\ \A verb \in {"SET", "SINTERSTORE"} : \A args \in IssuedArgs(verb) :
          \A clk \in ClockReads(IssuedReads(verb, args)) :
              Len(args) >= 1 => ReplacesExpiry(verb, args, clk)
\* A live list with an expiry: RPUSH lengthens it and SET replaces it.
C34_Witness ==
    /\ LiveAt(storage, KeyA, now) /\ storage.data[KeyA].type = "list"
    /\ storage.data[KeyA].expiry_time # None
    /\ execute(storage, "RPUSH", <<KeyA, "x">>, Same(1)).s.data[KeyA].value
         # storage.data[KeyA].value
    /\ execute(storage, "SET", <<KeyA, "x">>, Same(1)).s.data[KeyA].expiry_time = None


Volatile(s, k) == k \in DOMAIN s.data /\ s.data[k].expiry_time # None
Distance(a, b) == IF a >= b THEN a - b ELSE b - a
\* Key k of the keyspace `before`, volatile there, is volatile in `after` too,
\* its expiry within one second of what it was.
StaysVolatile(before, after, k) ==
    /\ Volatile(after, k)
    /\ Distance(after.data[k].expiry_time[1], before.data[k].expiry_time[1])
         <= TicksPerSec
\* C35: a snapshot round trip preserves expiry: after a SAVE that replied OK
\* and a DEBUG RELOAD that replied OK, every key that had an expiry when the
\* snapshot was taken and is still live at the reload has an expiry, within
\* one second of the one it had; no volatile key has become persistent.
C35_RoundTripKeepsExpiry ==
    persistence_manager # None =>
        \A clk \in ClockReads(SaveReads(storage)) :
            LET saved == save(persistence_manager, files, storage, <<>>, clk)
            IN saved.reply = ok =>
                 \A t \in clk[Len(clk)]..MaxTime :
                     LET reloaded == debug_command(saved.pm, saved.fs, saved.s,
                                                   <<"RELOAD">>, <<t>>)
                     IN reloaded.reply = ok =>
                          \A k \in Keys :
                              Volatile(storage, k) /\ ~ExpiredAt(storage, k, t)
                                  => StaysVolatile(storage, reloaded.s, k)
\* The same of the keys that have a whole second or more to live when the
\* snapshot has been written.
C35_WithAWholeSecondLeft ==
    persistence_manager # None =>
        \A clk \in ClockReads(SaveReads(storage)) :
            LET saved == save(persistence_manager, files, storage, <<>>, clk)
            IN saved.reply = ok =>
                 \A t \in clk[Len(clk)]..MaxTime :
                     LET reloaded == debug_command(saved.pm, saved.fs, saved.s,
                                                   <<"RELOAD">>, <<t>>)
                     IN reloaded.reply = ok =>
                          \A k \in Keys :
                              (/\ Volatile(storage, k) /\ ~ExpiredAt(storage, k, t)
                               /\ storage.data[k].expiry_time[1] - clk[Len(clk)]
                                    >= TicksPerSec)
                                  => StaysVolatile(storage, reloaded.s, k)


\* What the persistence files describe: the keyspace recovery builds from
\* them when it starts from an empty one.
Described(fs, t) == recover_data(fs, DataStoreInit, t).s
\* C36: after a DEBUG RELOAD that replies OK, with a persistence file to
\* recover from, the keyspace holds only keys the file describes: a key that
\* was in memory and is not in the file is gone, whether the snapshot was
\* loaded or the append-only file replayed.
C36_ReloadLeavesOnlyTheFile ==
    (persistence_manager # None /\ (files.aof # None \/ files.rdb # None)) =>
        LET reloaded == debug_command(persistence_manager, files, storage,
                                      <<"RELOAD">>, <<now>>)
        IN reloaded.reply = ok =>
             \A k \in DOMAIN reloaded.s.data : k \in DOMAIN Described(files, now).data
\* The same when recovery loads the snapshot: the keyspace is then what the
\* snapshot describes, entry by entry.
C36_FromTheSnapshot ==
    (persistence_manager # None /\ files.aof = None /\ files.rdb # None) =>
        LET reloaded == debug_command(persistence_manager, files, storage,
                                      <<"RELOAD">>, <<now>>)
        IN reloaded.reply = ok => reloaded.s.data = Described(files, now).data


\* Recovery will load the snapshot, and the snapshot does not read or decode.
SnapshotLoadFails ==
    /\ persistence_manager # None /\ files.aof = None /\ files.rdb # None
    /\ deserialize_data(files.rdb[1]).exc # ""
\* C37: a snapshot load that fails on a bad magic or version, a checksum
\* mismatch or an undecodable payload leaves the keyspace exactly as it was,
\* counters included, and DEBUG RELOAD replies with an error.
C37_FailedLoadLeavesKeyspace ==
    SnapshotLoadFails =>
        LET reloaded == debug_command(persistence_manager, files, storage,
                                      <<"RELOAD">>, <<now>>)
        IN /\ reloaded.s = storage
           /\ reloaded.reply.t = "error"
\* Keys are stored, one of them a list, and the snapshot on disk is damaged.
C37_Witness ==
    /\ SnapshotLoadFails
    /\ \E k \in DOMAIN storage.data : storage.data[k].type = "list"
    /\ debug_command(persistence_manager, files, storage, <<"RELOAD">>, <<now>>).reply
         = error("reload failed")


\* The saver is between the opening of the temporary file and its renaming.
HasTempOpen(saver) == savers.pc[saver] = "written"
\* In this step the saver writes, renames or removes the temporary file.
TouchesTemp(saver) ==
    \/ savers.pc[saver] = "locked" /\ savers'.pc[saver] \in {"written", "raised"}
    \/ savers.pc[saver] = "written" /\ savers'.pc[saver] = "moved"
    \/ savers.pc[saver] = "raised" /\ savers'.pc[saver] = "removed"
C38_Step ==
    \A saver \in Savers :
        TouchesTemp(saver) => \A other \in Savers \ {saver} : ~HasTempOpen(other)
\* C38: two snapshot writes never overlap: no caller of create_snapshot, SAVE
\* on the main thread or the thread of a BGSAVE, writes, renames or removes
\* the temporary file while another is between opening it and renaming it.
C38_SnapshotWritesNeverOverlap == [][C38_Step]_vars
\* One saver has written the temporary file and not yet renamed it while the
\* two others have called create_snapshot and wait for the lock.
C38_Witness ==
    \E saver \in Savers :
        /\ HasTempOpen(saver)
        /\ \A other \in Savers \ {saver} : savers.pc[other] = "called"


\* C39: the memory counter INFO reports is never negative, and it is 0
\* whenever no entry is stored.
C39_MemoryCounterNotNegative ==
    /\ storage.memory_usage >= 0
    /\ DOMAIN storage.data = {} => storage.memory_usage = 0


\* SET key x EX seconds has replied OK in keyspace `after`: GET at once
\* returns x and TTL replies a count from 0 to seconds.
LiveAfterSetEx(after, key, seconds) ==
    LET got == get(after, <<key>>, Same(1))
        left == ttl(got.s, <<key>>, Same(1))
    IN /\ got.reply = bulk_string(PyStr(<<"x">>))
       /\ left.reply.t = "integer"
       /\ left.reply.n >= 0 /\ left.reply.n <= seconds
\* C40: after SET key value EX n replies OK the key is live: a GET that
\* follows at once returns the value and TTL is between 0 and n, for every
\* integer n SET accepts.
C40_SetExLeavesKeyLive ==
    \A key \in Keys : \A tok \in IntTokens :
        LET h == set(storage, <<key, "x", "EX", tok>>, Same(1))
        IN h.reply = ok => LiveAfterSetEx(h.s, key, int(tok))
\* The same for the n above 0.
C40_ForPositiveSeconds ==
    \A key \in Keys : \A tok \in IntTokens :
        LET h == set(storage, <<key, "x", "EX", tok>>, Same(1))
        IN (h.reply = ok /\ int(tok) > 0) => LiveAfterSetEx(h.s, key, int(tok))

====
